---- MODULE Spec2Model ----
(***************************************************************************)
(* Model of external_devices.py: the MQTT <-> D-Bus bridge.  One device of *)
(* one variant is built from a descriptor; inbound MQTT messages are       *)
(* handled on the network thread (on_mqtt_message_specific), property      *)
(* updates are queued with GLib.idle_add and applied by the main loop,     *)
(* and external D-Bus writes go through handle_dbus_change.                *)
(*                                                                         *)
(* Text is modelled as a sequence of lexemes (a word, a quoted string, a   *)
(* punctuation mark, a blank); numbers are held in thousandths.            *)
(***************************************************************************)
EXTENDS Integers, Sequences, FiniteSets, TLC

\* ------------------------------------------------------------------------
\* Bounds of the model
\* ------------------------------------------------------------------------

\* Number of environment events (inbound messages, external writes,
\* connection changes) in a run.
MaxEvents == 2

\* Number of inbound messages in a run of the inbound path alone.
MaxMessages == 3

\* ------------------------------------------------------------------------
\* Text: lexemes, str.strip, str.lower
\* ------------------------------------------------------------------------

\* A bare word or punctuation mark, a "double-quoted" and a 'single-quoted'
\* string literal, and one blank.
W(s) == [s |-> s, q |-> "none"]
Q(s) == [s |-> s, q |-> "dq"]
SQ(s) == [s |-> s, q |-> "sq"]
SP == W(" ")

\* str.lower on the letters of one lexeme.
LowerWord(s) ==
  CASE s = "ON" -> "on"
    [] s = "On" -> "on"
    [] s = "OFF" -> "off"
    [] s = "TRUE" -> "true"
    [] s = "True" -> "true"
    [] s = "False" -> "false"
    [] s = "None" -> "none"
    [] s = "Bulk" -> "bulk"
    [] s = "ABC" -> "abc"
    [] OTHER -> s

lower(text) == [i \in DOMAIN text |-> [text[i] EXCEPT !.s = LowerWord(@)]]

RECURSIVE lstrip(_)
lstrip(text) ==
  IF text # <<>> /\ Head(text) = SP THEN lstrip(Tail(text)) ELSE text

RECURSIVE rstrip(_)
rstrip(text) ==
  IF text # <<>> /\ text[Len(text)] = SP
  THEN rstrip(SubSeq(text, 1, Len(text) - 1))
  ELSE text

strip(text) == rstrip(lstrip(text))

\* ------------------------------------------------------------------------
\* Python values
\* ------------------------------------------------------------------------

\* t: the type; n: the number in thousandths (int, float, bool); s: the
\* characters (str); items: the <<key, value>> entries of a dict in insertion
\* order, or the elements of a list.
PyNone == [s |-> "", t |-> "none", n |-> 0, items |-> <<>>]
PyInt(i) == [s |-> "", t |-> "int", n |-> 1000 * i, items |-> <<>>]
PyFloat(h) == [s |-> "", t |-> "float", n |-> h, items |-> <<>>]
PyBool(b) == [s |-> "", t |-> "bool", n |-> IF b THEN 1000 ELSE 0, items |-> <<>>]
PyStr(s) == [s |-> s, t |-> "str", n |-> 0, items |-> <<>>]
PyDict(items) == [s |-> "", t |-> "dict", n |-> 0, items |-> items]
PyList(items) == [s |-> "", t |-> "list", n |-> 0, items |-> items]

IsNumber(v) == v.t \in {"int", "float", "bool"}

\* a == b in Python: numbers (bool included) compare by value, everything
\* else by type and content.
PyEq(a, b) ==
  IF IsNumber(a) /\ IsNumber(b) THEN a.n = b.n
  ELSE a = b

\* The words Python accepts as a number, with their value in thousandths.
\* json (a strict grammar) rejects a leading "+", which float() accepts.
NumberWords ==
  {"0", "1", "2", "3", "50", "120", "150", "240", "23.5", "23.456", "+5"}
JsonNumberWords == NumberWords \ {"+5"}
IntWords == {"0", "1", "2", "3", "50", "120", "150", "240", "+5"}

WordValue(w) ==
  CASE w = "0" -> 0
    [] w = "1" -> 1000
    [] w = "2" -> 2000
    [] w = "3" -> 3000
    [] w = "50" -> 50000
    [] w = "120" -> 120000
    [] w = "150" -> 150000
    [] w = "240" -> 240000
    [] w = "23.5" -> 23500
    [] w = "23.456" -> 23456
    [] w = "+5" -> 5000
    [] OTHER -> 0

\* str() of a number: the shortest repr.
NumberText(v) ==
  CASE v.t = "bool" -> IF v.n = 0 THEN "False" ELSE "True"
    [] v.t = "int" /\ v.n = 0 -> "0"
    [] v.t = "int" /\ v.n = 1000 -> "1"
    [] v.t = "int" /\ v.n = 2000 -> "2"
    [] v.t = "int" /\ v.n = 3000 -> "3"
    [] v.t = "int" /\ v.n = 50000 -> "50"
    [] v.t = "int" /\ v.n = 120000 -> "120"
    [] v.t = "int" /\ v.n = 150000 -> "150"
    [] v.t = "int" /\ v.n = 240000 -> "240"
    [] v.t = "float" /\ v.n = 23500 -> "23.5"
    [] v.t = "float" /\ v.n = 23456 -> "23.456"
    [] v.t = "float" /\ v.n = 0 -> "0.0"
    [] v.t = "float" /\ v.n = 1000 -> "1.0"
    [] v.t = "float" /\ v.n = 5000 -> "5.0"
    [] OTHER -> "number"

\* repr() / str() of a value, as text.  str of a str is its characters; inside
\* a container a str is shown in single quotes.
RECURSIVE repr(_)
RECURSIVE reprItems(_, _)
repr(v) ==
  CASE v.t = "none" -> <<W("None")>>
    [] IsNumber(v) -> <<W(NumberText(v))>>
    [] v.t = "str" -> <<SQ(v.s)>>
    [] v.t = "dict" -> <<W("{")>> \o reprItems(v.items, TRUE) \o <<W("}")>>
    [] OTHER -> <<W("[")>> \o reprItems(v.items, FALSE) \o <<W("]")>>

reprItems(items, keyed) ==
  IF items = <<>> THEN <<>>
  ELSE (IF keyed
        THEN <<SQ(items[1][1]), W(":"), SP>> \o repr(items[1][2])
        ELSE repr(items[1]))
       \o (IF Len(items) > 1 THEN <<W(","), SP>> ELSE <<>>)
       \o reprItems(Tail(items), keyed)

str(v) == IF v.t = "str" THEN <<W(v.s)>> ELSE repr(v)

\* ------------------------------------------------------------------------
\* json.loads
\* ------------------------------------------------------------------------

NoBlanks(text) == SelectSeq(text, LAMBDA x : x # SP)

Failed == [v |-> PyNone, ok |-> FALSE, next |-> 0]

\* dict[key] = value: replaces an entry of the same key, else appends.
RECURSIVE DictPut(_, _, _)
DictPut(items, k, v) ==
  IF items = <<>> THEN << <<k, v>> >>
  ELSE IF items[1][1] = k THEN << <<k, v>> >> \o Tail(items)
  ELSE <<items[1]>> \o DictPut(Tail(items), k, v)

IsWord(toks, i, s) == i <= Len(toks) /\ toks[i] = W(s)

\* One JSON value starting at lexeme i: [ok, v, next].
RECURSIVE ParseValue(_, _)
RECURSIVE ParseMembers(_, _, _)
ParseValue(toks, i) ==
  IF i > Len(toks) THEN Failed
  ELSE LET tok == toks[i] IN
    CASE tok.q = "dq" -> [v |-> PyStr(tok.s), ok |-> TRUE, next |-> i + 1]
      [] tok.q = "sq" -> Failed
      [] tok.s \in JsonNumberWords ->
           [v |-> IF tok.s \in IntWords THEN PyInt(WordValue(tok.s) \div 1000)
                  ELSE PyFloat(WordValue(tok.s)),
            ok |-> TRUE,
            next |-> i + 1]
      [] tok.s = "true" -> [v |-> PyBool(TRUE), ok |-> TRUE, next |-> i + 1]
      [] tok.s = "false" -> [v |-> PyBool(FALSE), ok |-> TRUE, next |-> i + 1]
      [] tok.s = "null" -> [v |-> PyNone, ok |-> TRUE, next |-> i + 1]
      [] tok.s = "{" ->
           IF IsWord(toks, i + 1, "}")
           THEN [v |-> PyDict(<<>>), ok |-> TRUE, next |-> i + 2]
           ELSE ParseMembers(toks, i + 1, <<>>)
      [] tok.s = "[" ->
           IF IsWord(toks, i + 1, "]")
           THEN [v |-> PyList(<<>>), ok |-> TRUE, next |-> i + 2]
           ELSE LET e == ParseValue(toks, i + 1) IN
                IF e.ok /\ IsWord(toks, e.next, "]")
                THEN [v |-> PyList(<<e.v>>), ok |-> TRUE, next |-> e.next + 1]
                ELSE Failed
      [] OTHER -> Failed

ParseMembers(toks, i, acc) ==
  IF i + 2 > Len(toks) \/ toks[i].q # "dq" \/ toks[i + 1] # W(":") THEN Failed
  ELSE LET e == ParseValue(toks, i + 2) IN
    IF ~e.ok THEN Failed
    ELSE LET items == DictPut(acc, toks[i].s, e.v) IN
      IF IsWord(toks, e.next, "}")
      THEN [v |-> PyDict(items), ok |-> TRUE, next |-> e.next + 1]
      ELSE IF IsWord(toks, e.next, ",")
      THEN ParseMembers(toks, e.next + 1, items)
      ELSE Failed

\* json.loads(text): [ok, v]; ok = FALSE is json.JSONDecodeError.
json_loads(text) ==
  LET toks == NoBlanks(text)
      r == ParseValue(toks, 1)
  IN IF r.ok /\ r.next = Len(toks) + 1
     THEN [v |-> r.v, ok |-> TRUE]
     ELSE [v |-> PyNone, ok |-> FALSE]

\* float(text): [ok, v]; ok = FALSE is ValueError.  float() strips blanks.
float_of_text(text) ==
  LET t == strip(text) IN
  IF Len(t) = 1 /\ t[1].q = "none" /\ t[1].s \in NumberWords
  THEN [v |-> PyFloat(WordValue(t[1].s)), ok |-> TRUE]
  ELSE [v |-> PyNone, ok |-> FALSE]

\* key in dict, dict[key]
HasKey(d, k) == \E i \in DOMAIN d.items : d.items[i][1] = k
GetKey(d, k) == d.items[CHOOSE i \in DOMAIN d.items : d.items[i][1] = k][2]

\* path.split('.') for the keys in use.
split_dots(path) ==
  CASE path = "a.b" -> <<"a", "b">>
    [] OTHER -> <<path>>

RECURSIVE walk(_, _)
walk(current, parts) ==
  IF parts = <<>> THEN current
  ELSE IF current.t = "dict" /\ HasKey(current, Head(parts))
  THEN walk(GetKey(current, Head(parts)), Tail(parts))
  ELSE PyNone

get_json_attribute(data, path) == walk(data, split_dots(path))

\* ------------------------------------------------------------------------
\* Topics, property paths, payloads
\* ------------------------------------------------------------------------

\* A topic string: the output it belongs to (0: the device itself), the
\* quantity, and whether it contains the placeholder 'path/to/mqtt'.
Topic(o, name) == [o |-> o, name |-> name, ph |-> FALSE]
PlaceholderTopic(o, name) == [o |-> o, name |-> name, ph |-> TRUE]
\* None, or the empty string: a key that is absent from the section.
NoTopic == [o |-> 0, name |-> "", ph |-> FALSE]
\* A topic no descriptor names.
OtherTopic == Topic(0, "other")

\* topic and 'path/to/mqtt' not in topic
is_valid_topic(topic) == topic # NoTopic /\ ~topic.ph

\* A D-Bus path: /SwitchableOutput/output_<o>/<g>/<k> when o > 0, else /<g>/<k>.
Path(o, g, k) == [k |-> k, o |-> o, g |-> g]
NoPath == Path(0, "", "")

\* The bytes of a message: whether they decode as UTF-8, and the text.
Bytes(text) == [text |-> text, utf8 |-> TRUE]
BadBytes == [text |-> <<>>, utf8 |-> FALSE]

\* ------------------------------------------------------------------------
\* State
\* ------------------------------------------------------------------------

VARIABLES
  dev,        \* the device built from its descriptor (fixed after Init)
  props,      \* the device's D-Bus properties: path -> value
  idle,       \* callbacks queued with GLib.idle_add, oldest first
  connected,  \* mqtt_client.is_connected()
  last,       \* what the most recent handler call did
  prev,       \* topic -> the value decoded from the previous message on it
  left,       \* number of environment events the run may still take
  sections,                 \* main(): the config sections still to process
  active_services,          \* main(): the registry, [dev, props] per service
  all_topics_to_subscribe,  \* main(): the client's userdata
  subscriptions,            \* the topics the broker holds for the session
  phase,                    \* main(): "setup", "running" or "exited"
  connects,                 \* number of connection attempts answered so far
  config,                            \* config.py: the device sections of config.ini
  device_instance_counter,           \* config.py: the next device instance of an add
  device_index_sequencer,            \* config.py: the next device index of an add
  highest_existing_device_instance,  \* config.py: the highest instance ever loaded
  highest_existing_device_index,     \* config.py: the highest index ever loaded
  discovered_modules_and_topics      \* config.py: the discovery map, serial -> module

\* The state of main(): registry, subscription set and connection.
main == <<sections, active_services, all_topics_to_subscribe, subscriptions, phase,
          connects>>
\* The state of the configuration script config.py.
wizard == <<config, device_instance_counter, device_index_sequencer,
            highest_existing_device_instance, highest_existing_device_index,
            discovered_modules_and_topics>>

vars == <<dev, props, idle, connected, last, prev, left, main, wizard>>

\* The specifications of the service leave the configuration script out.
NoWizard ==
  /\ config = {}
  /\ device_instance_counter = 100
  /\ device_index_sequencer = 1
  /\ highest_existing_device_instance = 99
  /\ highest_existing_device_index = 0
  /\ discovered_modules_and_topics = {}

\* The specifications of one device leave main() out.
NoMain ==
  /\ sections = <<>>
  /\ active_services = <<>>
  /\ all_topics_to_subscribe = {}
  /\ subscriptions = {}
  /\ phase = "running"
  /\ connects = 0

\* No value decoded yet (or since the last external write).
Undecoded == [s |-> "", t |-> "undecoded", n |-> 0, items |-> <<>>]

\* The record of one handler call.  op: "init", "msg" (on_mqtt_message_specific),
\* "write" (handle_dbus_change, then the commit of an accepted write), "idle"
\* (one queued callback run by the main loop).  decoded: the value a message
\* decoded to; caught: an exception reached the handler's outer except and was
\* logged; raised: one escaped the handler; pub, save: the publishes and the
\* persistence writes issued; sched: the callbacks queued; set: the paths
\* assigned; changed: the paths whose value changed; rep: the call applies a
\* message that repeated the previous decoded value of its topic; f: the
\* callback the main loop ran; service: the index of the
\* service it ran on; delivered, processed: the services a message was
\* offered to, and those whose subscription check it passed; rc, subscribed:
\* the result code of a connection attempt and the topics subscribed in it;
\* failed: the persistence write of the call did not reach the config file.
Quiet ==
  [path |-> NoPath, topic |-> NoTopic, op |-> "init", payload |-> BadBytes,
   value |-> PyNone, decoded |-> PyNone, ret |-> FALSE, caught |-> FALSE,
   raised |-> FALSE, pub |-> <<>>, save |-> <<>>, sched |-> <<>>,
   set |-> {}, changed |-> {}, rep |-> FALSE, src |-> "", was |-> PyNone,
   f |-> "", service |-> 0, delivered |-> {}, processed |-> {}, rc |-> 0,
   subscribed |-> {}, failed |-> FALSE]

\* A queued callback: the method, its arguments, whether a message or a write
\* queued it, and whether that message repeated the previous value of its topic.
Callback(f, path, v, src, rep) ==
  [v |-> v, path |-> path, rep |-> rep, src |-> src, f |-> f]

\* on_mqtt_message_dispatcher: msg.payload.decode() in its first statement
\* raises on bytes that are not UTF-8, before any device's handler is called.
DispatcherRaises(topic, payload) ==
  /\ last' = [Quiet EXCEPT !.op = "msg", !.topic = topic, !.payload = payload,
                           !.raised = TRUE]
  /\ UNCHANGED <<idle, prev>>

\* The paths whose value differs (as Python compares values) between two
\* property stores.
Diff(before, after) == {p \in DOMAIN before : ~PyEq(after[p], before[p])}

\* ------------------------------------------------------------------------
\* DbusSwitch
\* ------------------------------------------------------------------------

\* Number of outputs of the relay module (NumberOfSwitches).
NumOutputs == 2

Outputs == 1 .. NumOutputs

StatePath(k) == Path(k, "", "State")
SwitchSettings == {"CustomName", "Group", "ShowUIControl"}

\* __init__: the ON/OFF state payload kept as JSON only when it parses as an
\* object with exactly one key.
single_key_json(raw) ==
  LET parsed == json_loads(raw) IN
  IF parsed.ok /\ parsed.v.t = "dict" /\ Len(parsed.v.items) = 1
  THEN parsed.v ELSE PyNone

\* add_output: an output is mapped only when both of its topics are valid.
output_mapped(out) ==
  is_valid_topic(out.MqttStateTopic) /\ is_valid_topic(out.MqttCommandTopic)

DbusSwitch(outputs, on_state, off_state, on_cmd, off_cmd) ==
  [outputs |-> outputs,
   kind |-> "switch",
   DeviceIndex |-> 1,
   mqtt_on_state_payload_raw |-> on_state,
   mqtt_off_state_payload_raw |-> off_state,
   mqtt_on_command_payload |-> on_cmd,
   mqtt_off_command_payload |-> off_cmd,
   mqtt_on_state_payload_json |-> single_key_json(on_state),
   mqtt_off_state_payload_json |-> single_key_json(off_state),
   dbus_path_to_state_topic_map |->
     [k \in {j \in DOMAIN outputs : output_mapped(outputs[j])} |->
        outputs[k].MqttStateTopic],
   dbus_path_to_command_topic_map |->
     [k \in {j \in DOMAIN outputs : output_mapped(outputs[j])} |->
        outputs[k].MqttCommandTopic],
   mqtt_subscriptions |->
     {outputs[k].MqttStateTopic : k \in {j \in DOMAIN outputs : output_mapped(outputs[j])}}]

SwitchProps(outputs) ==
  [p \in {Path(0, "", "CustomName")}
         \cup {StatePath(k) : k \in DOMAIN outputs}
         \cup {Path(k, "Settings", key) : k \in DOMAIN outputs, key \in SwitchSettings} |->
     IF p.k = "State" THEN PyInt(0)
     ELSE IF p.k = "ShowUIControl" THEN PyInt(1)
     ELSE PyStr("")]

\* structured_match with the texts compared as they are, without lower().
structured_match_exact(incoming, configured) ==
  /\ configured # PyNone
  /\ LET attr == configured.items[1][1]
         val == configured.items[1][2]
         extracted == get_json_attribute(incoming, attr)
     IN extracted # PyNone /\ str(extracted) = str(val)

\* str(extracted).lower() == str(expected).lower(), for the one key of a
\* configured single-key payload.
structured_match(incoming, configured) ==
  /\ configured # PyNone
  /\ LET attr == configured.items[1][1]
         val == configured.items[1][2]
         extracted == get_json_attribute(incoming, attr)
     IN extracted # PyNone /\ lower(str(extracted)) = lower(str(val))

\* The decoding of on_mqtt_message_specific: [caught, new_state], new_state
\* PyNone when the payload is not recognised.
SwitchDecode(d, payload) ==
  IF ~payload.utf8 THEN [caught |-> TRUE, new_state |-> PyNone]
  ELSE
    LET payload_str == strip(payload.text)
        incoming == json_loads(payload_str)
        on_hit == incoming.ok /\ structured_match(incoming.v, d.mqtt_on_state_payload_json)
        off_hit == incoming.ok /\ ~on_hit
                   /\ structured_match(incoming.v, d.mqtt_off_state_payload_json)
    IN
    IF on_hit THEN [caught |-> FALSE, new_state |-> PyInt(1)]
    ELSE IF off_hit THEN [caught |-> FALSE, new_state |-> PyInt(0)]
    ELSE IF incoming.ok /\ incoming.v.t # "dict"
    THEN \* incoming_json.get: AttributeError, caught by the outer except
         [caught |-> TRUE, new_state |-> PyNone]
    ELSE
      LET processed_payload_value ==
            IF incoming.ok
            THEN IF HasKey(incoming.v, "value")
                 THEN lower(str(GetKey(incoming.v, "value")))
                 ELSE lower(payload_str)
            ELSE lower(payload_str)
      IN
      IF processed_payload_value = lower(d.mqtt_on_state_payload_raw)
      THEN [caught |-> FALSE, new_state |-> PyInt(1)]
      ELSE IF processed_payload_value = lower(d.mqtt_off_state_payload_raw)
      THEN [caught |-> FALSE, new_state |-> PyInt(0)]
      ELSE [caught |-> FALSE, new_state |-> PyNone]

\* next((k for k, v in map.items() if v == topic), None): the first output,
\* in the order the outputs were added, whose state topic is the topic.
SwitchPathOf(d, topic) ==
  LET ks == {k \in DOMAIN d.dbus_path_to_state_topic_map :
               d.dbus_path_to_state_topic_map[k] = topic}
  IN IF ks = {} THEN NoPath
     ELSE StatePath(CHOOSE k \in ks : \A j \in ks : k <= j)

\* What on_mqtt_message_specific of one device answers to one message: whether
\* the topic passed the subscription check, the decoded value, whether an
\* exception was caught, and the callbacks handed to GLib.idle_add.
Ignored == [decoded |-> Undecoded, caught |-> FALSE, handled |-> FALSE, cbs |-> <<>>]
Answer(decoded, caught, cbs) ==
  [decoded |-> decoded, caught |-> caught, handled |-> TRUE, cbs |-> cbs]

IsRepeat(topic, decoded) == prev[topic] # Undecoded /\ PyEq(prev[topic], decoded)

\* The callbacks of a message, marked as repeating the previous decoded value.
Marked(cbs, rep) == [i \in DOMAIN cbs |-> [cbs[i] EXCEPT !.rep = rep]]

\* DbusSwitch.on_mqtt_message_specific
SwitchOnMessage(d, store, topic, payload) ==
  IF topic \notin d.mqtt_subscriptions THEN Ignored
  ELSE
    LET r == SwitchDecode(d, payload)
        dbus_path == SwitchPathOf(d, topic)
        cbs == IF r.new_state # PyNone /\ dbus_path # NoPath
                  /\ ~PyEq(store[dbus_path], r.new_state)
               THEN <<Callback("update_dbus_from_mqtt", dbus_path, r.new_state, "msg",
                               FALSE)>>
               ELSE <<>>
    IN Answer(r.new_state, r.caught, cbs)

\* One message offered to the device: the callbacks are queued.
Offered(topic, payload, r) ==
  IF ~r.handled
  THEN /\ last' = [Quiet EXCEPT !.op = "msg", !.topic = topic, !.payload = payload]
       /\ UNCHANGED <<idle, prev>>
  ELSE LET rep == r.decoded # PyNone /\ IsRepeat(topic, r.decoded)
           cbs == Marked(r.cbs, rep)
       IN /\ idle' = idle \o cbs
          /\ prev' = IF r.decoded # PyNone
                     THEN [prev EXCEPT ![topic] = r.decoded] ELSE prev
          /\ last' = [Quiet EXCEPT !.op = "msg", !.topic = topic, !.payload = payload,
                                   !.decoded = r.decoded, !.caught = r.caught,
                                   !.sched = cbs, !.rep = rep]

SwitchMessage(topic, payload) ==
  /\ dev.kind = "switch"
  /\ left > 0
  /\ left' = left - 1
  /\ UNCHANGED <<dev, props, connected, main, wizard>>
  /\ IF ~payload.utf8 THEN DispatcherRaises(topic, payload)
     ELSE Offered(topic, payload, SwitchOnMessage(dev, props, topic, payload))

\* DbusSwitch.update_dbus_from_mqtt, run by the main loop
SwitchApplied(store, cb) ==
  LET write == ~PyEq(store[cb.path], cb.v)
  IN [set |-> IF write THEN {cb.path} ELSE {},
      store |-> IF write THEN [store EXCEPT ![cb.path] = cb.v] ELSE store]

\* A callback run by the main loop on the device: r = [store, set] is what it
\* leaves of the property store and the paths it assigned.
Updated(r, cb) ==
  /\ props' = r.store
  /\ last' = [Quiet EXCEPT !.op = "idle", !.f = cb.f, !.path = cb.path, !.value = cb.v,
                           !.rep = cb.rep, !.src = cb.src, !.was = props[cb.path],
                           !.set = r.set, !.changed = Diff(props, props')]

SwitchUpdate(cb) == Updated(SwitchApplied(props, cb), cb)

\* publish_mqtt_command that does not look at the connection.
publish_mqtt_command_unchecked(d, path, value, isconnected) ==
  IF path.o \notin DOMAIN d.dbus_path_to_command_topic_map THEN <<>>
  ELSE <<[topic |-> d.dbus_path_to_command_topic_map[path.o],
          payload |-> IF PyEq(value, PyInt(1)) THEN d.mqtt_on_command_payload
                      ELSE d.mqtt_off_command_payload,
          retain |-> FALSE]>>

\* publish_mqtt_command that always sends the ON command payload.
publish_mqtt_command_on(d, path, value, isconnected) ==
  IF ~isconnected THEN <<>>
  ELSE IF path.o \notin DOMAIN d.dbus_path_to_command_topic_map THEN <<>>
  ELSE <<[topic |-> d.dbus_path_to_command_topic_map[path.o],
          payload |-> d.mqtt_on_command_payload,
          retain |-> FALSE]>>

\* publish_mqtt_command that publishes retained.
publish_mqtt_command_retained(d, path, value, isconnected) ==
  IF ~isconnected THEN <<>>
  ELSE IF path.o \notin DOMAIN d.dbus_path_to_command_topic_map THEN <<>>
  ELSE <<[topic |-> d.dbus_path_to_command_topic_map[path.o],
          payload |-> IF PyEq(value, PyInt(1)) THEN d.mqtt_on_command_payload
                      ELSE d.mqtt_off_command_payload,
          retain |-> TRUE]>>

\* DbusSwitch.publish_mqtt_command: the publishes it makes
publish_mqtt_command(d, path, value, isconnected) ==
  IF ~isconnected THEN <<>>
  ELSE IF path.o \notin DOMAIN d.dbus_path_to_command_topic_map THEN <<>>
  ELSE <<[topic |-> d.dbus_path_to_command_topic_map[path.o],
          payload |-> IF PyEq(value, PyInt(1)) THEN d.mqtt_on_command_payload
                      ELSE d.mqtt_off_command_payload,
          retain |-> FALSE]>>

\* A section name of the config file: <name>_<dev> or <name>_<dev>_<out>.
Section(name, index, out) == [name |-> name, dev |-> index, out |-> out]

\* save_config_change(section, key, value): one write of the config file
save_config_change(section, key, value) ==
  <<[value |-> str(value), key |-> key, section |-> section]>>

\* save_config_change whose except clause raises the failure again.
save_config_change_reraises(fails) == fails

\* Whether save_config_change raises to its caller when reading, updating or
\* writing the config file fails: its whole body runs inside try ... except
\* Exception, which logs the failure.
save_config_change_raises(fails) == FALSE

\* handle_dbus_change around its persistence write: r is what the handler
\* answers when save_config_change returns.  An exception raised by the call
\* would end the handler there, before its return True and before the
\* callbacks it queues after the write.
Persisted(r, fails) ==
  IF r.save # <<>> /\ save_config_change_raises(fails)
  THEN [x \in DOMAIN r |-> CASE x = "ret" -> FALSE
                              [] x = "sched" -> <<>>
                              [] OTHER -> r[x]]
  ELSE r

\* handle_dbus_change that also persists the state of an output.
SwitchHandleChange_persist_state(d, path, value, isconnected) ==
  IF path.o > 0 /\ (path.g = "Settings" \/ path.k = "State")
  THEN [ret |-> TRUE,
        pub |-> IF path.k = "State"
                THEN publish_mqtt_command(d, path, value, isconnected) ELSE <<>>,
        save |-> save_config_change(Section("switch", d.DeviceIndex, path.o),
                                    path.k, value)]
  ELSE [ret |-> path = Path(0, "", "CustomName"), pub |-> <<>>, save |-> <<>>]

\* handle_dbus_change that accepts any value for the state of an output.
SwitchHandleChange_any_state(d, path, value, isconnected) ==
  IF path.o > 0 /\ (path.g = "Settings" \/ path.k = "State")
  THEN [ret |-> TRUE,
        pub |-> IF path.k = "State"
                THEN publish_mqtt_command(d, path, value, isconnected) ELSE <<>>,
        save |-> IF path.g = "Settings"
                 THEN save_config_change(Section("switch", d.DeviceIndex, path.o),
                                         path.k, value)
                 ELSE <<>>]
  ELSE IF path = Path(0, "", "CustomName")
  THEN [ret |-> TRUE, pub |-> <<>>,
        save |-> save_config_change(Section("Relay_Module", d.DeviceIndex, 0),
                                    "CustomName", value)]
  ELSE [ret |-> FALSE, pub |-> <<>>, save |-> <<>>]

\* DbusSwitch.handle_dbus_change: [ret, pub, save]
SwitchHandleChange(d, path, value, isconnected) ==
  IF path.o > 0
  THEN IF path.g = "" /\ path.k = "State"
       THEN IF PyEq(value, PyInt(0)) \/ PyEq(value, PyInt(1))
            THEN [ret |-> TRUE, pub |-> publish_mqtt_command(d, path, value, isconnected),
                  save |-> <<>>]
            ELSE [ret |-> FALSE, pub |-> <<>>, save |-> <<>>]
       ELSE IF path.g = "Settings"
       THEN [ret |-> TRUE, pub |-> <<>>,
             save |-> save_config_change(Section("switch", d.DeviceIndex, path.o),
                                         path.k, value)]
       ELSE [ret |-> FALSE, pub |-> <<>>, save |-> <<>>]
  ELSE IF path = Path(0, "", "CustomName")
  THEN [ret |-> TRUE, pub |-> <<>>,
        save |-> save_config_change(Section("Relay_Module", d.DeviceIndex, 0),
                                    "CustomName", value)]
  ELSE [ret |-> FALSE, pub |-> <<>>, save |-> <<>>]

\* The values an external client writes to a path.
SwitchWriteValues(path) ==
  IF path.k = "State" THEN {PyInt(0), PyInt(1), PyInt(2)}
  ELSE IF path.k = "ShowUIControl" THEN {PyInt(0)}
  ELSE {PyStr("Pump")}

\* An external write of a writeable path: handle_dbus_change is called, and
\* the value is set when it returns True.
SwitchWrite(path, value) ==
  /\ dev.kind = "switch"
  /\ left > 0
  /\ left' = left - 1
  /\ \E fails \in BOOLEAN :
     LET r == Persisted(SwitchHandleChange(dev, path, value, connected), fails) IN
     /\ props' = IF r.ret THEN [props EXCEPT ![path] = value] ELSE props
     /\ last' = [Quiet EXCEPT !.op = "write", !.path = path, !.value = value,
                              !.ret = r.ret, !.pub = r.pub, !.save = r.save,
                              !.failed = fails /\ r.save # <<>>,
                              !.was = props[path],
                              !.set = IF r.ret THEN {path} ELSE {},
                              !.changed = Diff(props, props')]
  /\ prev' = [t \in DOMAIN prev |-> Undecoded]
  /\ UNCHANGED <<dev, idle, connected, main, wizard>>

\* ------------------------------------------------------------------------
\* DbusDigitalInput
\* ------------------------------------------------------------------------

DIGITAL_INPUT_TYPES ==
  [name \in {"disabled", "pulse meter", "door alarm", "bilge pump", "bilge alarm",
             "burglar alarm", "smoke alarm", "fire alarm", "co2 alarm", "generator",
             "touch input control"} |->
     CASE name = "disabled" -> 0
       [] name = "pulse meter" -> 1
       [] name = "door alarm" -> 2
       [] name = "bilge pump" -> 3
       [] name = "bilge alarm" -> 4
       [] name = "burglar alarm" -> 5
       [] name = "smoke alarm" -> 6
       [] name = "fire alarm" -> 7
       [] name = "co2 alarm" -> 8
       [] name = "generator" -> 9
       [] name = "touch input control" -> 10]

\* DIGITAL_INPUT_TYPES.get(name, DIGITAL_INPUT_TYPES['disabled'])
digital_input_type(name) ==
  IF name \in DOMAIN DIGITAL_INPUT_TYPES THEN DIGITAL_INPUT_TYPES[name]
  ELSE DIGITAL_INPUT_TYPES["disabled"]

\* next((name for name, num in DIGITAL_INPUT_TYPES.items() if num == value), 'disabled')
digital_input_type_name(value) ==
  LET names == {name \in DOMAIN DIGITAL_INPUT_TYPES :
                  PyEq(PyInt(DIGITAL_INPUT_TYPES[name]), value)}
  IN IF names = {} THEN "disabled" ELSE CHOOSE name \in names : TRUE

InputStatePath == Path(0, "", "InputState")
InputTypePath == Path(0, "", "Type")
InputDisplayPath == Path(0, "", "State")
InvertTranslationPath == Path(0, "Settings", "InvertTranslation")

DbusDigitalInput(topic) ==
  [kind |-> "digitalinput",
   mqtt_subscriptions |-> IF is_valid_topic(topic) THEN {topic} ELSE {},
   config_section_name |-> Section("input", 1, 1),
   mqtt_state_topic |-> topic,
   mqtt_on_payload |-> <<W("ON")>>,
   mqtt_off_payload |-> <<W("OFF")>>]

DigitalInputProps(type_name, invert) ==
  [p \in {Path(0, "", "CustomName"), Path(0, "", "Count"), InputDisplayPath,
          InputTypePath, InvertTranslationPath, Path(0, "Settings", "InvertAlarm"),
          Path(0, "Settings", "AlarmSetting"), InputStatePath, Path(0, "", "Alarm")} |->
     CASE p = Path(0, "", "CustomName") -> PyStr("Digital Input")
       [] p = InputTypePath -> PyInt(digital_input_type(LowerWord(type_name)))
       [] p = InvertTranslationPath -> PyInt(invert)
       [] OTHER -> PyInt(0)]

\* _get_dbus_state_for_type whose alarm range stops one type short.
get_dbus_state_for_type_short_range(current_type, logical_state) ==
  IF PyEq(current_type, PyInt(2))
  THEN IF PyEq(logical_state, PyInt(1)) THEN PyInt(7) ELSE PyInt(6)
  ELSE IF PyEq(current_type, PyInt(3))
  THEN IF PyEq(logical_state, PyInt(1)) THEN PyInt(3) ELSE PyInt(2)
  ELSE IF 4000 <= current_type.n /\ current_type.n < 8000
  THEN IF PyEq(logical_state, PyInt(1)) THEN PyInt(9) ELSE PyInt(8)
  ELSE logical_state

\* _get_dbus_state_for_type, for the type the device holds
get_dbus_state_for_type(current_type, logical_state) ==
  IF PyEq(current_type, PyInt(2))
  THEN IF PyEq(logical_state, PyInt(1)) THEN PyInt(7) ELSE PyInt(6)
  ELSE IF PyEq(current_type, PyInt(3))
  THEN IF PyEq(logical_state, PyInt(1)) THEN PyInt(3) ELSE PyInt(2)
  ELSE IF 4000 <= current_type.n /\ current_type.n <= 8000
  THEN IF PyEq(logical_state, PyInt(1)) THEN PyInt(9) ELSE PyInt(8)
  ELSE logical_state

\* (1 - raw_state) if invert == 1 else raw_state
apply_inversion(raw_state, invert) ==
  IF PyEq(invert, PyInt(1)) THEN PyInt(1 - raw_state.n \div 1000) ELSE raw_state

\* The decoding of DbusDigitalInput.on_mqtt_message_specific: [caught, raw_state]
DigitalInputDecode(d, payload) ==
  IF ~payload.utf8 THEN [caught |-> TRUE, raw_state |-> PyNone]
  ELSE LET payload_str == strip(payload.text) IN
    IF lower(payload_str) = lower(d.mqtt_on_payload)
    THEN [caught |-> FALSE, raw_state |-> PyInt(1)]
    ELSE IF lower(payload_str) = lower(d.mqtt_off_payload)
    THEN [caught |-> FALSE, raw_state |-> PyInt(0)]
    ELSE [caught |-> FALSE, raw_state |-> PyNone]

\* DbusDigitalInput.on_mqtt_message_specific
DigitalInputOnMessage(d, store, topic, payload) ==
  IF topic \notin d.mqtt_subscriptions \/ topic # d.mqtt_state_topic THEN Ignored
  ELSE
    LET r == DigitalInputDecode(d, payload)
        final_state == apply_inversion(r.raw_state, store[InvertTranslationPath])
        dbus_state == get_dbus_state_for_type(store[InputTypePath], final_state)
        cbs == IF r.raw_state = PyNone THEN <<>>
               ELSE (IF ~PyEq(store[InputStatePath], r.raw_state)
                     THEN <<Callback("update_dbus_input_state", InputStatePath,
                                     r.raw_state, "msg", FALSE)>>
                     ELSE <<>>)
                    \o (IF ~PyEq(store[InputDisplayPath], dbus_state)
                        THEN <<Callback("update_dbus_state", InputDisplayPath,
                                        dbus_state, "msg", FALSE)>>
                        ELSE <<>>)
    IN Answer(r.raw_state, r.caught, cbs)

DigitalInputMessage(topic, payload) ==
  /\ dev.kind = "digitalinput"
  /\ left > 0
  /\ left' = left - 1
  /\ UNCHANGED <<dev, props, connected, main, wizard>>
  /\ IF ~payload.utf8 THEN DispatcherRaises(topic, payload)
     ELSE Offered(topic, payload, DigitalInputOnMessage(dev, props, topic, payload))

\* update_dbus_input_state, update_dbus_state and the update_dbus_from_mqtt of
\* the sensors: self[path] = value
AssignApplied(store, cb) ==
  [set |-> {cb.path}, store |-> [store EXCEPT ![cb.path] = cb.v]]

AssignUpdate(cb) == Updated(AssignApplied(props, cb), cb)

\* handle_dbus_change that persists the inversion flag and leaves the derived
\* state to the next message.
DigitalInputHandleChange_no_recompute(d, store, path, value) ==
  [ret |-> TRUE,
   save |-> save_config_change(d.config_section_name, path.k,
              IF path = InputTypePath THEN PyStr(digital_input_type_name(value))
              ELSE value),
   sched |-> <<>>]

\* handle_dbus_change that recomputes the derived state when the type is written.
DigitalInputHandleChange_type_recomputes(d, store, path, value) ==
  IF path.g = "Settings"
  THEN [ret |-> TRUE,
        save |-> save_config_change(d.config_section_name, path.k, value),
        sched |-> IF path = InvertTranslationPath
                  THEN <<Callback("update_dbus_state", InputDisplayPath,
                           get_dbus_state_for_type(store[InputTypePath],
                             apply_inversion(store[InputStatePath], value)),
                           "write", FALSE)>>
                  ELSE <<>>]
  ELSE [ret |-> TRUE,
        save |-> save_config_change(d.config_section_name, path.k,
                   IF path = InputTypePath THEN PyStr(digital_input_type_name(value))
                   ELSE value),
        sched |-> IF path = InputTypePath
                  THEN <<Callback("update_dbus_state", InputDisplayPath,
                           get_dbus_state_for_type(value,
                             apply_inversion(store[InputStatePath],
                                             store[InvertTranslationPath])),
                           "write", FALSE)>>
                  ELSE <<>>]

\* DbusDigitalInput.handle_dbus_change: [ret, save, sched]
DigitalInputHandleChange(d, store, path, value) ==
  IF path.g = "Settings"
  THEN [ret |-> TRUE,
        save |-> save_config_change(d.config_section_name, path.k, value),
        sched |-> IF path = InvertTranslationPath
                  THEN <<Callback("update_dbus_state", InputDisplayPath,
                           get_dbus_state_for_type(store[InputTypePath],
                             apply_inversion(store[InputStatePath], value)),
                           "write", FALSE)>>
                  ELSE <<>>]
  ELSE [ret |-> TRUE,
        save |-> save_config_change(d.config_section_name, path.k,
                   IF path = InputTypePath THEN PyStr(digital_input_type_name(value))
                   ELSE value),
        sched |-> <<>>]

DigitalInputWritePaths ==
  {Path(0, "", "CustomName"), Path(0, "", "Count"), InputDisplayPath, InputTypePath,
   InvertTranslationPath, Path(0, "Settings", "InvertAlarm"),
   Path(0, "Settings", "AlarmSetting")}

DigitalInputWriteValues(path) ==
  IF path = Path(0, "", "CustomName") THEN {PyStr("Door")}
  ELSE IF path = InputTypePath THEN {PyInt(2), PyInt(3), PyInt(11)}
  ELSE IF path = InvertTranslationPath THEN {PyInt(0), PyInt(1)}
  ELSE {PyInt(1)}

\* An external write of a writeable path of the digital input.
DigitalInputWrite(path, value) ==
  /\ dev.kind = "digitalinput"
  /\ left > 0
  /\ left' = left - 1
  /\ \E fails \in BOOLEAN :
     LET r == Persisted(DigitalInputHandleChange(dev, props, path, value), fails) IN
     /\ props' = IF r.ret THEN [props EXCEPT ![path] = value] ELSE props
     /\ idle' = idle \o r.sched
     /\ last' = [Quiet EXCEPT !.op = "write", !.path = path, !.value = value,
                              !.ret = r.ret, !.save = r.save, !.sched = r.sched,
                              !.failed = fails /\ r.save # <<>>,
                              !.was = props[path],
                              !.set = IF r.ret THEN {path} ELSE {},
                              !.changed = Diff(props, props')]
  /\ prev' = [t \in DOMAIN prev |-> Undecoded]
  /\ UNCHANGED <<dev, connected, main, wizard>>

\* ------------------------------------------------------------------------
\* Arithmetic on numbers held in thousandths
\* ------------------------------------------------------------------------

\* float(x) of a value: [ok, v]; ok = FALSE is ValueError or TypeError.
float_of_value(x) ==
  IF IsNumber(x) THEN [v |-> PyFloat(x.n), ok |-> TRUE]
  ELSE IF x.t = "str" THEN float_of_text(<<W(x.s)>>)
  ELSE [v |-> PyNone, ok |-> FALSE]

\* int(text): [ok, v]; ok = FALSE is ValueError.
int_of_text(text) ==
  LET t == strip(text) IN
  IF Len(t) = 1 /\ t[1].q = "none" /\ t[1].s \in IntWords
  THEN [v |-> PyInt(WordValue(t[1].s) \div 1000), ok |-> TRUE]
  ELSE [v |-> PyNone, ok |-> FALSE]

\* num / den rounded to the nearest integer, ties to even (den > 0).
RoundHalfEven(num, den) ==
  LET q == num \div den
      r == num % den
  IN IF 2 * r < den THEN q
     ELSE IF 2 * r > den THEN q + 1
     ELSE IF q % 2 = 0 THEN q ELSE q + 1

\* round(value, 2)
round2(v) ==
  [s |-> "",
   t |-> IF v.t = "bool" THEN "int" ELSE v.t, n |-> 10 * RoundHalfEven(v.n, 10), items |-> <<>>]

\* The first path of a {path: topic} map (kept in insertion order) whose topic
\* is the given one: next((k for k, v in map.items() if v == topic), None)
path_of_topic(map, topic) ==
  LET hits == {i \in DOMAIN map : map[i][2] = topic} IN
  IF hits = {} THEN NoPath
  ELSE map[CHOOSE i \in hits : \A j \in hits : i <= j][1]

\* valid_entries that drops only the absent topics.
valid_entries_present(map) == SelectSeq(map, LAMBDA e : e[2] # NoTopic)

\* {k: v for k, v in map.items() if v and 'path/to/mqtt' not in v}
valid_entries(map) == SelectSeq(map, LAMBDA e : is_valid_topic(e[2]))

topics_of(map) == {map[i][2] : i \in DOMAIN map}
paths_of(map) == {map[i][1] : i \in DOMAIN map}



\* An external write: handle_dbus_change answers r = [ret, save, sched] when
\* its persistence write returns, and the write of the config file fails or
\* not; the framework stores the value when the handler returns True.
Written(path, value, answer, fails) ==
  LET r == Persisted(answer, fails) IN
  /\ props' = IF r.ret THEN [props EXCEPT ![path] = value] ELSE props
  /\ idle' = idle \o r.sched
  /\ last' = [Quiet EXCEPT !.op = "write", !.path = path, !.value = value,
                           !.ret = r.ret, !.save = r.save, !.sched = r.sched,
                           !.failed = fails /\ r.save # <<>>,
                           !.was = props[path],
                           !.set = IF r.ret THEN {path} ELSE {},
                           !.changed = Diff(props, props')]
  /\ prev' = [t \in DOMAIN prev |-> Undecoded]

CustomNamePath == Path(0, "", "CustomName")

\* ------------------------------------------------------------------------
\* DbusTempSensor
\* ------------------------------------------------------------------------

TEMPERATURE_TYPES ==
  [name \in {"battery", "fridge", "generic", "room", "outdoor", "water heater",
             "freezer"} |->
     CASE name = "battery" -> 0
       [] name = "fridge" -> 1
       [] name = "generic" -> 2
       [] name = "room" -> 3
       [] name = "outdoor" -> 4
       [] name = "water heater" -> 5
       [] name = "freezer" -> 6]

TemperaturePath == Path(0, "", "Temperature")
HumidityPath == Path(0, "", "Humidity")
BatteryVoltagePath == Path(0, "", "BatteryVoltage")
TemperatureTypePath == Path(0, "", "TemperatureType")

DbusTempSensor(temperature_topic, humidity_topic, battery_topic) ==
  LET device_config == << <<TemperaturePath, temperature_topic>>,
                          <<HumidityPath, humidity_topic>>,
                          <<BatteryVoltagePath, battery_topic>> >>
      map == valid_entries(device_config)
  IN [kind |-> "temp",
      dbus_path_to_state_topic_map |-> map,
      mqtt_subscriptions |-> topics_of(map),
      device_config |-> device_config,
      device_index |-> 1]

TempProps(d, type_name) ==
  [p \in {CustomNamePath, TemperaturePath, TemperatureTypePath}
         \cup (paths_of(d.dbus_path_to_state_topic_map)
                 \cap {HumidityPath, BatteryVoltagePath}) |->
     CASE p = CustomNamePath -> PyStr("Temp")
       [] p = TemperatureTypePath ->
            PyInt(IF LowerWord(type_name) \in DOMAIN TEMPERATURE_TYPES
                  THEN TEMPERATURE_TYPES[LowerWord(type_name)]
                  ELSE TEMPERATURE_TYPES["generic"])
       [] OTHER -> PyFloat(0)]

\* The decoding of DbusTempSensor.on_mqtt_message_specific: [caught, value];
\* value None: the payload is dropped.
TempDecode(payload) ==
  IF ~payload.utf8 THEN [value |-> PyNone, caught |-> TRUE]
  ELSE
    LET payload_str == strip(payload.text)
        incoming_json == json_loads(payload_str)
    IN IF incoming_json.ok
       THEN IF incoming_json.v.t = "dict" /\ HasKey(incoming_json.v, "value")
            THEN LET f == float_of_value(GetKey(incoming_json.v, "value")) IN
                 IF f.ok THEN [value |-> f.v, caught |-> FALSE]
                 ELSE [value |-> PyNone, caught |-> TRUE]
            ELSE [value |-> PyNone, caught |-> FALSE]
       ELSE LET f == float_of_text(payload_str) IN
            IF f.ok THEN [value |-> f.v, caught |-> FALSE]
            ELSE [value |-> PyNone, caught |-> FALSE]

\* DbusTempSensor.on_mqtt_message_specific
TempOnMessage(d, store, topic, payload) ==
  IF topic \notin d.mqtt_subscriptions THEN Ignored
  ELSE
    LET dbus_path == path_of_topic(d.dbus_path_to_state_topic_map, topic)
        r == TempDecode(payload)
        cbs == IF r.value # PyNone /\ ~PyEq(store[dbus_path], r.value)
               THEN <<Callback("update_dbus_from_mqtt", dbus_path, r.value, "msg",
                               FALSE)>>
               ELSE <<>>
    IN Answer(r.value, r.caught, cbs)

TempMessage(topic, payload) ==
  /\ dev.kind = "temp"
  /\ left > 0
  /\ left' = left - 1
  /\ UNCHANGED <<dev, props, connected, main, wizard>>
  /\ IF ~payload.utf8 THEN DispatcherRaises(topic, payload)
     ELSE Offered(topic, payload, TempOnMessage(dev, props, topic, payload))

\* DbusTempSensor.handle_dbus_change: [ret, save, sched]
TempHandleChange(d, path, value) ==
  LET section_name == Section("Temp_Sensor", d.device_index, 0) IN
  IF path = CustomNamePath
  THEN [ret |-> TRUE, save |-> save_config_change(section_name, "CustomName", value),
        sched |-> <<>>]
  ELSE IF path = TemperatureTypePath
  THEN LET names == {k \in DOMAIN TEMPERATURE_TYPES :
                       PyEq(PyInt(TEMPERATURE_TYPES[k]), value)}
           type_str == IF names = {} THEN "generic" ELSE CHOOSE k \in names : TRUE
       IN [ret |-> TRUE,
           save |-> save_config_change(section_name, "Type", PyStr(type_str)),
           sched |-> <<>>]
  ELSE [ret |-> FALSE, save |-> <<>>, sched |-> <<>>]

TempWritePaths == {CustomNamePath, TemperatureTypePath}
TempWriteValues(path) ==
  IF path = CustomNamePath THEN {PyStr("Cabin")} ELSE {PyInt(1), PyInt(9)}

\* An external write of a writeable path of the temperature sensor.
TempWrite(path, value) ==
  /\ dev.kind = "temp"
  /\ left > 0
  /\ left' = left - 1
  /\ \E fails \in BOOLEAN :
       Written(path, value, TempHandleChange(dev, path, value), fails)
  /\ UNCHANGED <<dev, connected, main, wizard>>

\* ------------------------------------------------------------------------
\* DbusBattery
\* ------------------------------------------------------------------------

DcPath(k) == Path(0, "Dc/0", k)
SocPath == Path(0, "", "Soc")
SohPath == Path(0, "", "Soh")
CapacityPath == Path(0, "", "Capacity")

DbusBattery(current_topic, voltage_topic, soc_topic) ==
  LET device_config == << <<DcPath("Current"), current_topic>>,
                          <<DcPath("Power"), NoTopic>>,
                          <<DcPath("Temperature"), NoTopic>>,
                          <<DcPath("Voltage"), voltage_topic>>,
                          <<SocPath, soc_topic>>,
                          <<SohPath, NoTopic>> >>
      map == valid_entries(device_config)
  IN [kind |-> "battery",
      dbus_path_to_state_topic_map |-> map,
      mqtt_subscriptions |-> topics_of(map),
      device_config |-> device_config,
      device_index |-> 1]

BatteryProps(capacity) ==
  [p \in {CustomNamePath, SocPath, SohPath, CapacityPath, DcPath("Current"),
          DcPath("Power"), DcPath("Temperature"), DcPath("Voltage")} |->
     CASE p = CustomNamePath -> PyStr("Battery")
       [] p = SohPath -> PyFloat(100000)
       [] p = CapacityPath -> PyFloat(capacity)
       [] p = DcPath("Temperature") -> PyFloat(25000)
       [] OTHER -> PyFloat(0)]

\* The decoding of DbusBattery.on_mqtt_message_specific: [caught, value]
BatteryDecode(payload) ==
  IF ~payload.utf8 THEN [value |-> PyNone, caught |-> TRUE]
  ELSE
    LET payload_str == strip(payload.text)
        incoming_json == json_loads(payload_str)
    IN IF incoming_json.ok
       THEN IF incoming_json.v.t = "dict" /\ HasKey(incoming_json.v, "value")
            THEN [value |-> GetKey(incoming_json.v, "value"), caught |-> FALSE]
            ELSE [value |-> PyNone, caught |-> FALSE]
       ELSE LET f == float_of_text(payload_str) IN
            IF f.ok THEN [value |-> f.v, caught |-> FALSE]
            ELSE [value |-> PyNone, caught |-> FALSE]

\* DbusBattery.on_mqtt_message_specific
BatteryOnMessage(d, store, topic, payload) ==
  IF topic \notin d.mqtt_subscriptions THEN Ignored
  ELSE
    LET dbus_path == path_of_topic(d.dbus_path_to_state_topic_map, topic)
        r == BatteryDecode(payload)
        cbs == IF r.value # PyNone /\ ~PyEq(store[dbus_path], r.value)
               THEN <<Callback("update_dbus_from_mqtt", dbus_path, r.value, "msg",
                               FALSE)>>
               ELSE <<>>
    IN Answer(r.value, r.caught, cbs)

BatteryMessage(topic, payload) ==
  /\ dev.kind = "battery"
  /\ left > 0
  /\ left' = left - 1
  /\ UNCHANGED <<dev, props, connected, main, wizard>>
  /\ IF ~payload.utf8 THEN DispatcherRaises(topic, payload)
     ELSE Offered(topic, payload, BatteryOnMessage(dev, props, topic, payload))

\* DbusBattery.handle_dbus_change: [ret, save, sched]
BatteryHandleChange(d, path, value) ==
  LET section_name == Section("Virtual_Battery", d.device_index, 0) IN
  IF path = CustomNamePath
  THEN [ret |-> TRUE, save |-> save_config_change(section_name, "CustomName", value),
        sched |-> <<>>]
  ELSE IF path = CapacityPath
  THEN [ret |-> TRUE, save |-> save_config_change(section_name, "CapacityAh", value),
        sched |-> <<>>]
  ELSE [ret |-> FALSE, save |-> <<>>, sched |-> <<>>]

BatteryWritePaths == {CustomNamePath, CapacityPath}
BatteryWriteValues(path) ==
  IF path = CustomNamePath THEN {PyStr("House")} ELSE {PyFloat(120000)}

\* An external write of a writeable path of the battery.
BatteryWrite(path, value) ==
  /\ dev.kind = "battery"
  /\ left > 0
  /\ left' = left - 1
  /\ \E fails \in BOOLEAN :
       Written(path, value, BatteryHandleChange(dev, path, value), fails)
  /\ UNCHANGED <<dev, connected, main, wizard>>

\* ------------------------------------------------------------------------
\* DbusPvCharger
\* ------------------------------------------------------------------------

ChargerStatePath == Path(0, "", "State")
LoadStatePath == Path(0, "Load", "State")

DbusPvCharger(voltage_topic, load_topic, state_topic) ==
  LET device_config == << <<DcPath("Current"), NoTopic>>,
                          <<DcPath("Voltage"), voltage_topic>>,
                          <<Path(0, "Link", "ChargeVoltage"), NoTopic>>,
                          <<Path(0, "Link", "ChargeCurrent"), NoTopic>>,
                          <<LoadStatePath, load_topic>>,
                          <<ChargerStatePath, state_topic>>,
                          <<Path(0, "Pv", "V"), NoTopic>>,
                          <<Path(0, "Yield", "Power"), NoTopic>>,
                          <<Path(0, "Yield", "User"), NoTopic>>,
                          <<Path(0, "Yield", "System"), NoTopic>> >>
      map == valid_entries(device_config)
  IN [kind |-> "pvcharger",
      dbus_path_to_state_topic_map |-> map,
      mqtt_subscriptions |-> topics_of(map),
      device_config |-> device_config,
      device_index |-> 1]

PvChargerProps ==
  [p \in {CustomNamePath, DcPath("Current"), DcPath("Voltage"),
          Path(0, "Link", "ChargeVoltage"), Path(0, "Link", "ChargeCurrent"),
          LoadStatePath, ChargerStatePath, Path(0, "Pv", "V"),
          Path(0, "Yield", "Power"), Path(0, "Yield", "User"),
          Path(0, "Yield", "System")} |->
     CASE p = CustomNamePath -> PyStr("MPPT")
       [] p.g = "Link" \/ p = LoadStatePath -> PyNone
       [] p = ChargerStatePath -> PyInt(0)
       [] OTHER -> PyFloat(0)]

\* state_map.get(payload_str.lower()) of the two state channels
charger_state_map(text) ==
  IF Len(text) = 1 /\ text[1].q = "none"
  THEN CASE text[1].s = "off" -> PyInt(0)
         [] text[1].s = "bulk" -> PyInt(3)
         [] text[1].s = "absorption" -> PyInt(4)
         [] text[1].s = "float" -> PyInt(5)
         [] OTHER -> PyNone
  ELSE PyNone

load_state_map(text) ==
  IF Len(text) = 1 /\ text[1].q = "none"
  THEN CASE text[1].s = "off" -> PyInt(0)
         [] text[1].s = "on" -> PyInt(1)
         [] OTHER -> PyNone
  ELSE PyNone

\* The except (json.JSONDecodeError, ValueError) branch of the charger's handler
PvChargerPlain(dbus_path, payload_str) ==
  IF dbus_path = ChargerStatePath
  THEN LET i == int_of_text(payload_str) IN
       IF i.ok THEN i.v ELSE charger_state_map(lower(payload_str))
  ELSE IF dbus_path = LoadStatePath
  THEN LET i == int_of_text(payload_str) IN
       IF i.ok THEN i.v ELSE load_state_map(lower(payload_str))
  ELSE LET f == float_of_text(payload_str) IN
       IF f.ok THEN f.v ELSE PyNone

\* The decoding of DbusPvCharger.on_mqtt_message_specific: [caught, value]
PvChargerDecode(dbus_path, payload) ==
  IF ~payload.utf8 THEN [value |-> PyNone, caught |-> TRUE]
  ELSE
    LET payload_str == strip(payload.text)
        incoming_json == json_loads(payload_str)
        f == float_of_text(payload_str)
    IN [value |-> IF incoming_json.ok /\ incoming_json.v.t = "dict"
                     /\ HasKey(incoming_json.v, "value")
                  THEN GetKey(incoming_json.v, "value")
                  ELSE IF incoming_json.ok /\ f.ok THEN f.v
                  ELSE PvChargerPlain(dbus_path, payload_str),
        caught |-> FALSE]

\* DbusPvCharger.on_mqtt_message_specific
PvChargerOnMessage(d, store, topic, payload) ==
  IF topic \notin d.mqtt_subscriptions THEN Ignored
  ELSE
    LET dbus_path == path_of_topic(d.dbus_path_to_state_topic_map, topic)
        r == PvChargerDecode(dbus_path, payload)
        cbs == IF r.value # PyNone /\ ~PyEq(store[dbus_path], r.value)
               THEN <<Callback("update_dbus_from_mqtt", dbus_path, r.value, "msg",
                               FALSE)>>
               ELSE <<>>
    IN Answer(r.value, r.caught, cbs)

PvChargerMessage(topic, payload) ==
  /\ dev.kind = "pvcharger"
  /\ left > 0
  /\ left' = left - 1
  /\ UNCHANGED <<dev, props, connected, main, wizard>>
  /\ IF ~payload.utf8 THEN DispatcherRaises(topic, payload)
     ELSE Offered(topic, payload, PvChargerOnMessage(dev, props, topic, payload))

\* DbusPvCharger.update_dbus_from_mqtt, run by the main loop
PvChargerApplied(store, cb) ==
  [set |-> {cb.path},
   store |-> [store EXCEPT ![cb.path] = IF IsNumber(cb.v) THEN round2(cb.v) ELSE cb.v]]

PvChargerUpdate(cb) == Updated(PvChargerApplied(props, cb), cb)

\* DbusPvCharger.handle_dbus_change: [ret, save, sched]
PvChargerHandleChange(d, path, value) ==
  LET section_name == Section("Pv_Charger", d.device_index, 0) IN
  IF path = CustomNamePath
  THEN [ret |-> TRUE, save |-> save_config_change(section_name, "CustomName", value),
        sched |-> <<>>]
  ELSE [ret |-> FALSE, save |-> <<>>, sched |-> <<>>]

\* An external write of the charger's writeable path.
PvChargerWrite(path, value) ==
  /\ dev.kind = "pvcharger"
  /\ left > 0
  /\ left' = left - 1
  /\ \E fails \in BOOLEAN :
       Written(path, value, PvChargerHandleChange(dev, path, value), fails)
  /\ UNCHANGED <<dev, connected, main, wizard>>

\* ------------------------------------------------------------------------
\* DbusTankSensor
\* ------------------------------------------------------------------------

FLUID_TYPES ==
  [name \in {"fuel", "fresh water", "waste water", "live well", "oil", "black water",
             "gasoline", "diesel", "lpg", "lng", "hydraulic oil", "raw water"} |->
     CASE name = "fuel" -> 0
       [] name = "fresh water" -> 1
       [] name = "waste water" -> 2
       [] name = "live well" -> 3
       [] name = "oil" -> 4
       [] name = "black water" -> 5
       [] name = "gasoline" -> 6
       [] name = "diesel" -> 7
       [] name = "lpg" -> 8
       [] name = "lng" -> 9
       [] name = "hydraulic oil" -> 10
       [] name = "raw water" -> 11]

LevelPath == Path(0, "", "Level")
RemainingPath == Path(0, "", "Remaining")
RawValuePath == Path(0, "", "RawValue")
RawValueEmptyPath == Path(0, "", "RawValueEmpty")
RawValueFullPath == Path(0, "", "RawValueFull")
FluidTypePath == Path(0, "", "FluidType")

\* A range check without the upper limit.
level_in_range_no_upper(value) == 0 <= value.n

\* 0.0 <= value <= 100.0
level_in_range(value) == 0 <= value.n /\ value.n <= 100000

\* A level that is not clamped to 100.
calculate_level_from_raw_value_no_clamp(store) ==
  LET raw_value == store[RawValuePath].n
      raw_empty == store[RawValueEmptyPath].n
      raw_full == store[RawValueFullPath].n
      num == IF raw_full > raw_empty THEN raw_value - raw_empty
             ELSE raw_empty - raw_value
      den == IF raw_full > raw_empty THEN raw_full - raw_empty
             ELSE raw_empty - raw_full
      level == IF raw_full = raw_empty \/ num <= 0 THEN 0
               ELSE IF num >= den THEN 100000 * (num \div den)
               ELSE 10 * RoundHalfEven(10000 * num, den)
  IN [store EXCEPT ![LevelPath] = PyFloat(level)]

\* _calculate_level_from_raw_value on a property store
calculate_level_from_raw_value(store) ==
  LET raw_value == store[RawValuePath].n
      raw_empty == store[RawValueEmptyPath].n
      raw_full == store[RawValueFullPath].n
      num == IF raw_full > raw_empty THEN raw_value - raw_empty
             ELSE raw_empty - raw_value
      den == IF raw_full > raw_empty THEN raw_full - raw_empty
             ELSE raw_empty - raw_full
      level == IF raw_full = raw_empty \/ num <= 0 THEN 0
               ELSE IF num >= den THEN 100000
               ELSE 10 * RoundHalfEven(10000 * num, den)
  IN [store EXCEPT ![LevelPath] = PyFloat(level)]

\* A remaining volume that takes the level for a fraction, not a percentage.
calculate_remaining_from_level_no_percent(store) ==
  [store EXCEPT ![RemainingPath] =
     PyFloat(10 * RoundHalfEven(store[LevelPath].n * store[CapacityPath].n, 10000))]

\* _calculate_remaining_from_level on a property store
calculate_remaining_from_level(store) ==
  [store EXCEPT ![RemainingPath] =
     PyFloat(10 * RoundHalfEven(store[LevelPath].n * store[CapacityPath].n, 1000000))]

\* A tank whose level topic takes precedence over its raw topic.
DbusTankSensor_level_first(raw_topic, level_topic, temp_topic) ==
  LET level_map == IF is_valid_topic(level_topic) THEN << <<LevelPath, level_topic>> >>
                   ELSE IF is_valid_topic(raw_topic)
                   THEN << <<RawValuePath, raw_topic>> >>
                   ELSE <<>>
      map == level_map \o valid_entries(<< <<TemperaturePath, temp_topic>> >>)
  IN [kind |-> "tank",
      dbus_path_to_state_topic_map |-> map,
      mqtt_subscriptions |-> topics_of(map),
      device_index |-> 1,
      RawValueStateTopic |-> raw_topic,
      LevelStateTopic |-> level_topic,
      TemperatureStateTopic |-> temp_topic,
      is_level_direct |-> is_valid_topic(level_topic)]

DbusTankSensor(raw_topic, level_topic, temp_topic) ==
  LET level_map == IF is_valid_topic(raw_topic) THEN << <<RawValuePath, raw_topic>> >>
                   ELSE IF is_valid_topic(level_topic)
                   THEN << <<LevelPath, level_topic>> >>
                   ELSE <<>>
      map == level_map \o valid_entries(<< <<TemperaturePath, temp_topic>> >>)
  IN [kind |-> "tank",
      dbus_path_to_state_topic_map |-> map,
      mqtt_subscriptions |-> topics_of(map),
      device_index |-> 1,
      RawValueStateTopic |-> raw_topic,
      LevelStateTopic |-> level_topic,
      TemperatureStateTopic |-> temp_topic,
      is_level_direct |-> ~is_valid_topic(raw_topic) /\ is_valid_topic(level_topic)]

TankProps(d, capacity, raw_empty, raw_full) ==
  LET store ==
        [p \in {CustomNamePath, CapacityPath, FluidTypePath, LevelPath, RemainingPath,
                RawValuePath, RawValueEmptyPath, RawValueFullPath}
               \cup (paths_of(d.dbus_path_to_state_topic_map) \cap {TemperaturePath}) |->
           CASE p = CustomNamePath -> PyStr("Tank")
             [] p = CapacityPath -> PyFloat(capacity)
             [] p = FluidTypePath -> PyInt(FLUID_TYPES["fresh water"])
             [] p = RawValueEmptyPath -> PyFloat(raw_empty)
             [] p = RawValueFullPath -> PyFloat(raw_full)
             [] OTHER -> PyFloat(0)]
  IN calculate_remaining_from_level(
       IF d.is_level_direct THEN store ELSE calculate_level_from_raw_value(store))

\* The decoding of DbusTankSensor.on_mqtt_message_specific: [caught, value]
TankDecode(payload) ==
  IF ~payload.utf8 THEN [value |-> PyNone, caught |-> TRUE]
  ELSE
    LET payload_str == strip(payload.text)
        incoming_json == json_loads(payload_str)
    IN IF incoming_json.ok
       THEN IF incoming_json.v.t = "dict" /\ HasKey(incoming_json.v, "value")
            THEN LET f == float_of_value(GetKey(incoming_json.v, "value")) IN
                 IF f.ok THEN [value |-> f.v, caught |-> FALSE]
                 ELSE [value |-> PyNone, caught |-> TRUE]
            ELSE [value |-> PyNone, caught |-> FALSE]
       ELSE LET f == float_of_text(payload_str) IN
            IF f.ok THEN [value |-> f.v, caught |-> FALSE]
            ELSE [value |-> PyNone, caught |-> FALSE]

\* DbusTankSensor.on_mqtt_message_specific
TankOnMessage(d, store, topic, payload) ==
  IF topic \notin d.mqtt_subscriptions THEN Ignored
  ELSE
    LET dbus_path == path_of_topic(d.dbus_path_to_state_topic_map, topic)
        r == TankDecode(payload)
        value == r.value
        cbs ==
          IF value = PyNone THEN <<>>
          ELSE IF dbus_path = RawValuePath /\ ~d.is_level_direct
          THEN IF ~PyEq(store[RawValuePath], value)
               THEN <<Callback("_update_raw_value_and_recalculate", RawValuePath,
                               value, "msg", FALSE)>>
               ELSE <<>>
          ELSE IF dbus_path = LevelPath /\ d.is_level_direct
          THEN IF level_in_range(value)
                  /\ ~PyEq(store[LevelPath], round2(value))
               THEN <<Callback("_update_level_and_recalculate", LevelPath,
                               value, "msg", FALSE)>>
               ELSE <<>>
          ELSE IF ~PyEq(store[dbus_path], value)
               THEN <<Callback("update_dbus_from_mqtt", dbus_path, value, "msg", FALSE)>>
               ELSE <<>>
    IN Answer(value, r.caught, cbs)

TankMessage(topic, payload) ==
  /\ dev.kind = "tank"
  /\ left > 0
  /\ left' = left - 1
  /\ UNCHANGED <<dev, props, connected, main, wizard>>
  /\ IF ~payload.utf8 THEN DispatcherRaises(topic, payload)
     ELSE Offered(topic, payload, TankOnMessage(dev, props, topic, payload))

\* Callbacks whose update of the raw value leaves the remaining volume alone.
TankApplied_no_remaining(store, cb) ==
  CASE cb.f = "_update_raw_value_and_recalculate" ->
         [set |-> {RawValuePath, LevelPath},
          store |-> calculate_level_from_raw_value([store EXCEPT ![RawValuePath] = cb.v])]
    [] cb.f = "_update_level_and_recalculate" ->
         IF level_in_range(cb.v)
         THEN [set |-> {LevelPath, RemainingPath},
               store |-> calculate_remaining_from_level(
                           [store EXCEPT ![LevelPath] = round2(cb.v)])]
         ELSE [set |-> {}, store |-> store]
    [] cb.f = "_calculate_level_from_raw_value" ->
         [set |-> {LevelPath}, store |-> calculate_level_from_raw_value(store)]
    [] cb.f = "_calculate_remaining_from_level" ->
         [set |-> {RemainingPath}, store |-> calculate_remaining_from_level(store)]
    [] OTHER -> [set |-> {cb.path}, store |-> [store EXCEPT ![cb.path] = cb.v]]

\* The tank's callbacks, run by the main loop: _update_raw_value_and_recalculate,
\* _update_level_and_recalculate, _calculate_level_from_raw_value,
\* _calculate_remaining_from_level, update_dbus_from_mqtt.
TankApplied(store, cb) ==
  CASE cb.f = "_update_raw_value_and_recalculate" ->
         [set |-> {RawValuePath, LevelPath, RemainingPath},
          store |-> calculate_remaining_from_level(calculate_level_from_raw_value(
                      [store EXCEPT ![RawValuePath] = cb.v]))]
    [] cb.f = "_update_level_and_recalculate" ->
         IF level_in_range(cb.v)
         THEN [set |-> {LevelPath, RemainingPath},
               store |-> calculate_remaining_from_level(
                           [store EXCEPT ![LevelPath] = round2(cb.v)])]
         ELSE [set |-> {}, store |-> store]
    [] cb.f = "_calculate_level_from_raw_value" ->
         [set |-> {LevelPath}, store |-> calculate_level_from_raw_value(store)]
    [] cb.f = "_calculate_remaining_from_level" ->
         [set |-> {RemainingPath}, store |-> calculate_remaining_from_level(store)]
    [] OTHER -> [set |-> {cb.path}, store |-> [store EXCEPT ![cb.path] = cb.v]]

TankUpdate(cb) == Updated(TankApplied(props, cb), cb)

\* A tank whose calibration and capacity writes schedule nothing.
TankHandleChange_no_cascade(d, path, value) ==
  [ret |-> TRUE,
   save |-> save_config_change(Section("Tank_Sensor", d.device_index, 0), path.k, value),
   sched |-> <<>>]

\* DbusTankSensor.handle_dbus_change: [ret, save, sched]
TankHandleChange(d, path, value) ==
  LET section_name == Section("Tank_Sensor", d.device_index, 0)
      names == {k \in DOMAIN FLUID_TYPES : PyEq(PyInt(FLUID_TYPES[k]), value)}
      value_to_save == IF path.k = "FluidType"
                       THEN PyStr(IF names = {} THEN "fresh water"
                                  ELSE CHOOSE k \in names : TRUE)
                       ELSE value
  IN [ret |-> TRUE,
      save |-> save_config_change(section_name, path.k, value_to_save),
      sched |-> IF path \in {RawValueEmptyPath, RawValueFullPath} /\ ~d.is_level_direct
                THEN <<Callback("_calculate_level_from_raw_value", LevelPath, PyNone,
                                "write", FALSE),
                       Callback("_calculate_remaining_from_level", RemainingPath, PyNone,
                                "write", FALSE)>>
                ELSE IF path = CapacityPath
                THEN <<Callback("_calculate_remaining_from_level", RemainingPath, PyNone,
                                "write", FALSE)>>
                ELSE <<>>]

TankWritePaths ==
  {CustomNamePath, CapacityPath, FluidTypePath, RawValueEmptyPath, RawValueFullPath}
TankWriteValues(path) ==
  IF path = CustomNamePath THEN {PyStr("Diesel")}
  ELSE IF path = FluidTypePath THEN {PyInt(7)}
  ELSE IF path = CapacityPath THEN {PyFloat(500)}
  ELSE {PyFloat(50000)}

\* An external write of a writeable path of the tank.
TankWrite(path, value) ==
  /\ dev.kind = "tank"
  /\ left > 0
  /\ left' = left - 1
  /\ \E fails \in BOOLEAN :
       Written(path, value, TankHandleChange(dev, path, value), fails)
  /\ UNCHANGED <<dev, connected, main, wizard>>

\* ------------------------------------------------------------------------
\* Descriptors and payloads of the model
\* ------------------------------------------------------------------------

\* The text of an object of one or two keys; v, v1, v2 are texts.
JsonObj1(k, v) == <<W("{"), Q(k), W(":"), SP>> \o v \o <<W("}")>>
JsonObj1Tight(k, v) == <<W("{"), Q(k), W(":")>> \o v \o <<W("}")>>
JsonObj2(k1, v1, k2, v2) ==
  <<W("{"), Q(k1), W(":"), SP>> \o v1 \o <<W(","), SP, Q(k2), W(":"), SP>> \o v2
    \o <<W("}")>>

\* The state and command payloads of a relay module section.
SwitchPayloadConfigs ==
  { \* the defaults of main()
    <<<<W("1")>>, <<W("0")>>, <<W("1")>>, <<W("0")>>>>,
    <<<<W("ON")>>, <<W("OFF")>>, <<W("ON")>>, <<W("OFF")>>>>,
    <<JsonObj1("output", <<W("true")>>), JsonObj1("output", <<W("false")>>),
      <<W("on")>>, <<W("off")>>>>,
    <<JsonObj1("a.b", <<W("true")>>), JsonObj1("a.b", <<W("false")>>),
      <<W("on")>>, <<W("off")>>>>,
    <<JsonObj1("output", <<W("null")>>), JsonObj1("output", <<W("0")>>),
      <<W("on")>>, <<W("off")>>>> }

SwitchOutput(k, mapped) ==
  [MqttStateTopic |-> IF mapped THEN Topic(k, "state") ELSE PlaceholderTopic(k, "state"),
   MqttCommandTopic |-> Topic(k, "command")]

\* Every output mapped, or the last one left with its placeholder topic.
SwitchOutputConfigs ==
  { [k \in Outputs |-> SwitchOutput(k, TRUE)],
    [k \in Outputs |-> SwitchOutput(k, k < NumOutputs)] }

SwitchPayloads ==
  { Bytes(<<W("1")>>), Bytes(<<W("0")>>),
    Bytes(<<SP, W("on"), SP>>), Bytes(<<W("OFF")>>),
    Bytes(<<W("abc")>>),
    Bytes(JsonObj1("output", <<W("true")>>)),
    Bytes(JsonObj1Tight("output", <<W("true")>>)),
    Bytes(JsonObj1Tight("output", <<W("false")>>)),
    Bytes(JsonObj2("id", <<W("0")>>, "output", <<Q("TRUE")>>)),
    Bytes(JsonObj1Tight("output", <<W("null")>>)),
    Bytes(JsonObj1Tight("a.b", <<W("true")>>)),
    Bytes(JsonObj1("value", <<Q("ON")>>)),
    BadBytes }

SwitchTopics == {Topic(k, "state") : k \in Outputs} \cup {OtherTopic}

SwitchWritePaths ==
  {Path(0, "", "CustomName")}
    \cup {StatePath(k) : k \in Outputs}
    \cup {Path(k, "Settings", key) : k \in Outputs, key \in SwitchSettings}

InitSwitch(events) ==
  /\ \E outs \in SwitchOutputConfigs, pc \in SwitchPayloadConfigs :
       /\ dev = DbusSwitch(outs, pc[1], pc[2], pc[3], pc[4])
       /\ props = SwitchProps(outs)
  /\ idle = <<>>
  /\ connected \in BOOLEAN
  /\ last = Quiet
  /\ prev = [t \in SwitchTopics |-> Undecoded]
  /\ left = events
  /\ NoMain
  /\ NoWizard

DigitalInputTypeNames ==
  DOMAIN DIGITAL_INPUT_TYPES \cup {"none of these"}

DigitalInputTopics == {Topic(0, "state"), OtherTopic}

DigitalInputPayloads ==
  { Bytes(<<W("ON")>>), Bytes(<<SP, W("on")>>), Bytes(<<W("OFF")>>),
    Bytes(<<W("1")>>), Bytes(JsonObj1("value", <<Q("ON")>>)), BadBytes }

InitDigitalInput(events) ==
  /\ dev = DbusDigitalInput(Topic(0, "state"))
  /\ \E type_name \in DigitalInputTypeNames, invert \in {0, 1} :
       props = DigitalInputProps(type_name, invert)
  /\ idle = <<>>
  /\ connected \in BOOLEAN
  /\ last = Quiet
  /\ prev = [t \in DigitalInputTopics |-> Undecoded]
  /\ left = events
  /\ NoMain
  /\ NoWizard

JsonValue(v) == JsonObj1("value", v)

TempTopics == {Topic(0, "Temperature"), Topic(0, "Humidity"), OtherTopic}

TempPayloads ==
  { Bytes(<<W("23.5")>>), Bytes(<<SP, W("+5")>>), Bytes(<<W("abc")>>),
    Bytes(JsonValue(<<W("23.5")>>)), Bytes(JsonValue(<<W("0")>>)),
    Bytes(JsonValue(<<Q("23.5")>>)), Bytes(JsonValue(<<Q("abc")>>)),
    Bytes(JsonObj1("id", <<W("0")>>)), BadBytes }

InitTemp(events) ==
  /\ \E humidity_topic \in {Topic(0, "Humidity"), PlaceholderTopic(0, "Humidity")},
        type_name \in {"room", "none of these"} :
       /\ dev = DbusTempSensor(Topic(0, "Temperature"), humidity_topic, NoTopic)
       /\ props = TempProps(dev, type_name)
  /\ idle = <<>>
  /\ connected \in BOOLEAN
  /\ last = Quiet
  /\ prev = [t \in TempTopics |-> Undecoded]
  /\ left = events
  /\ NoMain
  /\ NoWizard

BatteryTopics == {Topic(0, "Voltage"), Topic(0, "Soc"), OtherTopic}

BatteryPayloads ==
  { Bytes(<<W("23.5")>>), Bytes(<<W("+5")>>), Bytes(<<W("abc")>>),
    Bytes(JsonValue(<<W("23.5")>>)), Bytes(JsonValue(<<W("0")>>)),
    Bytes(JsonValue(<<Q("abc")>>)), Bytes(JsonValue(<<W("null")>>)),
    Bytes(JsonObj1("id", <<W("0")>>)), BadBytes }

InitBattery(events) ==
  /\ \E soc_topic \in {Topic(0, "Soc"), NoTopic} :
       dev = DbusBattery(NoTopic, Topic(0, "Voltage"), soc_topic)
  /\ props = BatteryProps(100000)
  /\ idle = <<>>
  /\ connected \in BOOLEAN
  /\ last = Quiet
  /\ prev = [t \in BatteryTopics |-> Undecoded]
  /\ left = events
  /\ NoMain
  /\ NoWizard

PvChargerTopics ==
  {Topic(0, "Voltage"), Topic(0, "LoadState"), Topic(0, "ChargerState"), OtherTopic}

PvChargerPayloads ==
  { Bytes(<<W("23.456")>>), Bytes(<<W("3")>>), Bytes(<<W("+5")>>),
    Bytes(<<W("Bulk")>>), Bytes(<<W("on")>>), Bytes(<<W("abc")>>),
    Bytes(JsonValue(<<W("23.456")>>)), Bytes(JsonValue(<<Q("abc")>>)),
    Bytes(JsonObj1("id", <<W("0")>>)), BadBytes }

InitPvCharger(events) ==
  /\ dev = DbusPvCharger(Topic(0, "Voltage"), Topic(0, "LoadState"),
                         Topic(0, "ChargerState"))
  /\ props = PvChargerProps
  /\ idle = <<>>
  /\ connected \in BOOLEAN
  /\ last = Quiet
  /\ prev = [t \in PvChargerTopics |-> Undecoded]
  /\ left = events
  /\ NoMain
  /\ NoWizard

TankTopics ==
  {Topic(0, "RawValue"), Topic(0, "Level"), Topic(0, "Temperature"), OtherTopic}

TankPayloads ==
  { Bytes(<<W("50")>>), Bytes(<<W("+5")>>), Bytes(<<W("abc")>>),
    Bytes(JsonValue(<<W("0")>>)), Bytes(JsonValue(<<W("50")>>)),
    Bytes(JsonValue(<<W("120")>>)), Bytes(JsonValue(<<W("240")>>)),
    Bytes(JsonValue(<<W("23.456")>>)),
    Bytes(JsonValue(<<Q("abc")>>)), Bytes(JsonObj1("id", <<W("0")>>)), BadBytes }

\* The level channel of the descriptor: raw values, a direct level, or none.
TankTopicConfigs ==
  { <<Topic(0, "RawValue"), Topic(0, "Level")>>,
    <<PlaceholderTopic(0, "RawValue"), Topic(0, "Level")>>,
    <<NoTopic, NoTopic>> }

InitTank(events) ==
  /\ \E tc \in TankTopicConfigs, raw_full \in {0, 240000} :
       /\ dev = DbusTankSensor(tc[1], tc[2], Topic(0, "Temperature"))
       /\ props = TankProps(dev, 200, 0, raw_full)
  /\ idle = <<>>
  /\ connected \in BOOLEAN
  /\ last = Quiet
  /\ prev = [t \in TankTopics |-> Undecoded]
  /\ left = events
  /\ NoMain
  /\ NoWizard

\* ------------------------------------------------------------------------
\* The main loop and the connection
\* ------------------------------------------------------------------------

\* A main loop whose update of a relay output goes through the write handler
\* and publishes the command of the value it applies.
RunIdle_echo ==
  /\ idle # <<>>
  /\ LET cb == Head(idle) IN
       CASE dev.kind = "switch" ->
              /\ props' = SwitchApplied(props, cb).store
              /\ last' = [Quiet EXCEPT !.op = "idle", !.f = cb.f, !.path = cb.path,
                                       !.value = cb.v, !.rep = cb.rep, !.src = cb.src,
                                       !.was = props[cb.path],
                                       !.pub = publish_mqtt_command(dev, cb.path, cb.v,
                                                                    connected),
                                       !.set = SwitchApplied(props, cb).set,
                                       !.changed = Diff(props, props')]
         [] dev.kind = "pvcharger" -> PvChargerUpdate(cb)
         [] dev.kind = "tank" -> TankUpdate(cb)
         [] OTHER -> AssignUpdate(cb)
  /\ idle' = Tail(idle)
  /\ UNCHANGED <<dev, connected, prev, left, main, wizard>>

\* A main loop whose callbacks return True: each one stays in the queue.
RunIdle_rearms ==
  /\ idle # <<>>
  /\ LET cb == Head(idle) IN
       CASE dev.kind = "switch" -> SwitchUpdate(cb)
         [] dev.kind = "pvcharger" -> PvChargerUpdate(cb)
         [] dev.kind = "tank" -> TankUpdate(cb)
         [] OTHER -> AssignUpdate(cb)
  /\ idle' = Tail(idle) \o <<Head(idle)>>
  /\ UNCHANGED <<dev, connected, prev, left, main, wizard>>

\* The main loop runs the oldest queued callback; it returns False and is
\* removed from the queue.
RunIdle ==
  /\ idle # <<>>
  /\ LET cb == Head(idle) IN
       CASE dev.kind = "switch" -> SwitchUpdate(cb)
         [] dev.kind = "pvcharger" -> PvChargerUpdate(cb)
         [] dev.kind = "tank" -> TankUpdate(cb)
         [] OTHER -> AssignUpdate(cb)
  /\ idle' = Tail(idle)
  /\ UNCHANGED <<dev, connected, prev, left, main, wizard>>

\* The broker connection is lost, or the client reconnects.
ConnectionChange ==
  /\ left > 0
  /\ left' = left - 1
  /\ connected' = ~connected
  /\ last' = [Quiet EXCEPT !.op = "connection"]
  /\ UNCHANGED <<dev, props, idle, prev, main, wizard>>

\* An inbound message reaches the device's handler.
Message ==
  \/ \E topic \in SwitchTopics, payload \in SwitchPayloads : SwitchMessage(topic, payload)
  \/ \E topic \in DigitalInputTopics, payload \in DigitalInputPayloads :
       DigitalInputMessage(topic, payload)
  \/ \E topic \in TempTopics, payload \in TempPayloads : TempMessage(topic, payload)
  \/ \E topic \in TankTopics, payload \in TankPayloads : TankMessage(topic, payload)
  \/ \E topic \in BatteryTopics, payload \in BatteryPayloads :
       BatteryMessage(topic, payload)
  \/ \E topic \in PvChargerTopics, payload \in PvChargerPayloads :
       PvChargerMessage(topic, payload)

\* An external write of one of the device's writeable paths.
Write ==
  \/ \E path \in SwitchWritePaths : \E value \in SwitchWriteValues(path) :
       SwitchWrite(path, value)
  \/ \E path \in DigitalInputWritePaths : \E value \in DigitalInputWriteValues(path) :
       DigitalInputWrite(path, value)
  \/ \E path \in TempWritePaths : \E value \in TempWriteValues(path) :
       TempWrite(path, value)
  \/ \E path \in TankWritePaths : \E value \in TankWriteValues(path) :
       TankWrite(path, value)
  \/ \E path \in BatteryWritePaths : \E value \in BatteryWriteValues(path) :
       BatteryWrite(path, value)
  \/ PvChargerWrite(CustomNamePath, PyStr("Solar"))

InitDevice(events) ==
  \/ InitSwitch(events)
  \/ InitDigitalInput(events)
  \/ InitTemp(events)
  \/ InitTank(events)
  \/ InitBattery(events)
  \/ InitPvCharger(events)

Init == InitDevice(MaxEvents)
Next == Message \/ Write \/ RunIdle \/ ConnectionChange
Spec == Init /\ [][Next]_vars

\* The running main loop: GLib dispatches a pending idle source whenever
\* the loop is idle, so a queued callback is not postponed for ever.
SpecFair == Spec /\ WF_vars(RunIdle)

\* The inbound path alone: messages and the main loop.
InitInbound == InitDevice(MaxMessages)
NextInbound == Message \/ RunIdle
SpecInbound == InitInbound /\ [][NextInbound]_vars

\* The relay module alone.
NextSwitch ==
  \/ \E topic \in SwitchTopics, payload \in SwitchPayloads : SwitchMessage(topic, payload)
  \/ \E path \in SwitchWritePaths : \E value \in SwitchWriteValues(path) :
       SwitchWrite(path, value)
  \/ RunIdle
  \/ ConnectionChange
SpecSwitch == InitSwitch(MaxEvents) /\ [][NextSwitch]_vars

\* The tank alone.
NextTank ==
  \/ \E topic \in TankTopics, payload \in TankPayloads : TankMessage(topic, payload)
  \/ \E path \in TankWritePaths : \E value \in TankWriteValues(path) :
       TankWrite(path, value)
  \/ RunIdle
  \/ ConnectionChange
SpecTank == InitTank(MaxEvents) /\ [][NextTank]_vars

\* The digital input alone.
NextDigitalInput ==
  \/ \E topic \in DigitalInputTopics, payload \in DigitalInputPayloads :
       DigitalInputMessage(topic, payload)
  \/ \E path \in DigitalInputWritePaths : \E value \in DigitalInputWriteValues(path) :
       DigitalInputWrite(path, value)
  \/ RunIdle
  \/ ConnectionChange
SpecDigitalInput == InitDigitalInput(MaxEvents) /\ [][NextDigitalInput]_vars

\* The digital input with its type held fixed: state messages, writes of the
\* inversion flag and the main loop.
NextInversion ==
  \/ \E topic \in DigitalInputTopics, payload \in DigitalInputPayloads :
       DigitalInputMessage(topic, payload)
  \/ \E value \in DigitalInputWriteValues(InvertTranslationPath) :
       DigitalInputWrite(InvertTranslationPath, value)
  \/ RunIdle
SpecInversion == InitDigitalInput(MaxEvents) /\ [][NextInversion]_vars

\* ------------------------------------------------------------------------
\* The topic fields of the descriptors
\* ------------------------------------------------------------------------

\* What a topic key of a config section may hold: a topic, nothing (the key
\* is absent or empty), or the placeholder.
TopicChoices(o, name) == {Topic(o, name), NoTopic, PlaceholderTopic(o, name)}

FieldTopics ==
  {Topic(0, name) : name \in {"state", "Temperature", "Humidity", "Battery", "Current",
                              "Voltage", "Soc", "LoadState", "ChargerState", "RawValue",
                              "Level"}}
    \cup {Topic(1, "state")}
FieldPayloads == {Bytes(JsonValue(<<W("50")>>)), Bytes(<<W("ON")>>)}

\* A device of any class built from a section whose topic keys hold any of
\* the choices.
InitFields ==
  /\ \/ \E s \in TopicChoices(1, "state"), c \in TopicChoices(1, "command") :
          LET outs == [k \in Outputs |->
                         IF k = 1 THEN [MqttStateTopic |-> s, MqttCommandTopic |-> c]
                         ELSE SwitchOutput(k, TRUE)]
          IN /\ dev = DbusSwitch(outs, <<W("ON")>>, <<W("OFF")>>, <<W("ON")>>,
                                 <<W("OFF")>>)
             /\ props = SwitchProps(outs)
     \/ \E s \in TopicChoices(0, "state") :
          /\ dev = DbusDigitalInput(s)
          /\ props = DigitalInputProps("door alarm", 0)
     \/ \E t \in TopicChoices(0, "Temperature"), h \in TopicChoices(0, "Humidity"),
           b \in TopicChoices(0, "Battery") :
          /\ dev = DbusTempSensor(t, h, b)
          /\ props = TempProps(dev, "room")
     \/ \E r \in TopicChoices(0, "RawValue"), l \in TopicChoices(0, "Level"),
           t \in TopicChoices(0, "Temperature") :
          /\ dev = DbusTankSensor(r, l, t)
          /\ props = TankProps(dev, 200, 0, 240000)
     \/ \E c \in TopicChoices(0, "Current"), v \in TopicChoices(0, "Voltage"),
           soc \in TopicChoices(0, "Soc") :
          /\ dev = DbusBattery(c, v, soc)
          /\ props = BatteryProps(100000)
     \/ \E v \in TopicChoices(0, "Voltage"), l \in TopicChoices(0, "LoadState"),
           c \in TopicChoices(0, "ChargerState") :
          /\ dev = DbusPvCharger(v, l, c)
          /\ props = PvChargerProps
  /\ idle = <<>>
  /\ connected = TRUE
  /\ last = Quiet
  /\ prev = [t \in FieldTopics |-> Undecoded]
  /\ left = MaxEvents
  /\ NoMain
  /\ NoWizard

NextFields ==
  \/ \E topic \in FieldTopics, payload \in FieldPayloads : SwitchMessage(topic, payload)
  \/ \E topic \in FieldTopics, payload \in FieldPayloads :
       DigitalInputMessage(topic, payload)
  \/ \E topic \in FieldTopics, payload \in FieldPayloads : TempMessage(topic, payload)
  \/ \E topic \in FieldTopics, payload \in FieldPayloads : TankMessage(topic, payload)
  \/ \E topic \in FieldTopics, payload \in FieldPayloads : BatteryMessage(topic, payload)
  \/ \E topic \in FieldTopics, payload \in FieldPayloads :
       PvChargerMessage(topic, payload)
  \/ RunIdle
SpecFields == InitFields /\ [][NextFields]_vars

\* ------------------------------------------------------------------------
\* main(): the registry, the connection and the dispatcher
\* ------------------------------------------------------------------------

MaxSections == 2
MaxConnects == 2

\* on_mqtt_message_specific of a device of any class
on_mqtt_message_specific(d, store, topic, payload) ==
  CASE d.kind = "switch" -> SwitchOnMessage(d, store, topic, payload)
    [] d.kind = "digitalinput" -> DigitalInputOnMessage(d, store, topic, payload)
    [] d.kind = "temp" -> TempOnMessage(d, store, topic, payload)
    [] d.kind = "tank" -> TankOnMessage(d, store, topic, payload)
    [] d.kind = "battery" -> BatteryOnMessage(d, store, topic, payload)
    [] d.kind = "pvcharger" -> PvChargerOnMessage(d, store, topic, payload)

\* The callback of a device of any class, run on its property store.
run_callback(d, store, cb) ==
  CASE d.kind = "switch" -> SwitchApplied(store, cb)
    [] d.kind = "pvcharger" -> PvChargerApplied(store, cb)
    [] d.kind = "tank" -> TankApplied(store, cb)
    [] OTHER -> AssignApplied(store, cb)

\* A topic two sections are configured with.
SharedTopic == Topic(0, "shared")

\* external_devices.main, device_type_map: the class of a section, by the
\* prefix of its name; "none" when no prefix matches.
device_type_map(name) ==
  CASE name = "Relay_Module" -> "switch"
    [] name = "Temp_Sensor" -> "temp"
    [] name = "Tank_Sensor" -> "tank"
    [] name = "Virtual_Battery" -> "battery"
    [] name = "input" -> "digitalinput"
    [] name = "Pv_Charger" -> "pvcharger"
    [] OTHER -> "none"

\* main(): the sections left out of sections_to_process, [global], [mqtt]
\* and the sections of the outputs, switch_<m>_<n>.
left_to_parent(section) ==
  \/ section.name \in {"Global", "MQTT"}
  \/ section.name = "switch" /\ section.out > 0

\* The config sections of the model: the name of the section, what the
\* constructor builds and whether it raises.
ConfigSection(section, raises, d, store) ==
  [dev |-> d, props |-> store, section |-> section, raises |-> raises]
TempSection ==
  LET d == DbusTempSensor(SharedTopic, Topic(1, "Humidity"), NoTopic)
  IN ConfigSection(Section("Temp_Sensor", 1, 0), FALSE, d, TempProps(d, "room"))
BatterySection(raises) ==
  ConfigSection(Section("Virtual_Battery", 2, 0), raises,
                DbusBattery(NoTopic, SharedTopic, Topic(2, "Soc")), BatteryProps(100000))
TankSection ==
  LET d == DbusTankSensor(Topic(3, "RawValue"), SharedTopic, NoTopic)
  IN ConfigSection(Section("Tank_Sensor", 3, 0), FALSE, d, TankProps(d, 200, 0, 240000))
UnknownSection ==
  ConfigSection(Section("Heater", 1, 0), FALSE, DbusBattery(NoTopic, NoTopic, NoTopic),
                BatteryProps(100000))
OutputSection ==
  ConfigSection(Section("switch", 1, 1), FALSE, DbusBattery(NoTopic, SharedTopic, NoTopic),
                BatteryProps(100000))
ConfigSections ==
  <<TempSection, BatterySection(FALSE), TankSection, BatterySection(TRUE),
    UnknownSection, OutputSection>>

MainTopics ==
  {SharedTopic, Topic(1, "Humidity"), Topic(2, "Soc"), Topic(3, "RawValue"), OtherTopic}
MainPayloads ==
  { Bytes(JsonValue(<<W("50")>>)), Bytes(JsonValue(<<W("120")>>)),
    Bytes(<<W("abc")>>), BadBytes }

InitMain ==
  /\ \E n \in 0..MaxSections : \E f \in [1..n -> DOMAIN ConfigSections] :
       sections = [i \in 1..n |-> ConfigSections[f[i]]]
  /\ active_services = <<>>
  /\ all_topics_to_subscribe = {}
  /\ subscriptions = {}
  /\ phase = "setup"
  /\ connects = 0
  /\ dev = [kind |-> "main"]
  /\ props = <<>>
  /\ idle = <<>>
  /\ connected = FALSE
  /\ last = Quiet
  /\ prev = <<>>
  /\ left = MaxEvents
  /\ NoWizard

\* A loop turn that assigns the subscription set instead of adding to it.
main_section_assign ==
  /\ phase = "setup"
  /\ sections # <<>>
  /\ LET section == Head(sections)
         known == ~left_to_parent(section.section)
                  /\ device_type_map(section.section.name) # "none"
         built == known /\ ~section.raises
     IN /\ active_services' =
             IF built
             THEN Append(active_services, [dev |-> section.dev, props |-> section.props])
             ELSE active_services
        /\ all_topics_to_subscribe' =
             IF built THEN section.dev.mqtt_subscriptions ELSE all_topics_to_subscribe
        /\ last' = [Quiet EXCEPT !.op = "section", !.caught = known /\ section.raises]
  /\ sections' = Tail(sections)
  /\ UNCHANGED <<dev, props, idle, connected, prev, left, subscriptions, phase, connects, wizard>>

\* A loop turn that registers a service whose constructor has raised.
main_section_keeps_failed ==
  /\ phase = "setup"
  /\ sections # <<>>
  /\ LET section == Head(sections)
         known == ~left_to_parent(section.section)
                  /\ device_type_map(section.section.name) # "none"
         built == known
     IN /\ active_services' =
             IF built
             THEN Append(active_services, [dev |-> section.dev, props |-> section.props])
             ELSE active_services
        /\ all_topics_to_subscribe' =
             IF built THEN all_topics_to_subscribe \cup section.dev.mqtt_subscriptions
             ELSE all_topics_to_subscribe
        /\ last' = [Quiet EXCEPT !.op = "section", !.caught = known /\ section.raises]
  /\ sections' = Tail(sections)
  /\ UNCHANGED <<dev, props, idle, connected, prev, left, subscriptions, phase, connects, wizard>>

\* main(): one turn over the sections of the file. The sections of the
\* outputs are left to their relay module and a section without a known
\* prefix is skipped; a constructor that raises leaves the registry and the
\* subscription set as they are, and the loop goes on.
main_section ==
  /\ phase = "setup"
  /\ sections # <<>>
  /\ LET section == Head(sections)
         known == ~left_to_parent(section.section)
                  /\ device_type_map(section.section.name) # "none"
         built == known /\ ~section.raises
     IN /\ active_services' =
             IF built
             THEN Append(active_services, [dev |-> section.dev, props |-> section.props])
             ELSE active_services
        /\ all_topics_to_subscribe' =
             IF built THEN all_topics_to_subscribe \cup section.dev.mqtt_subscriptions
             ELSE all_topics_to_subscribe
        /\ last' = [Quiet EXCEPT !.op = "section", !.caught = known /\ section.raises]
  /\ sections' = Tail(sections)
  /\ UNCHANGED <<dev, props, idle, connected, prev, left, subscriptions, phase, connects, wizard>>

\* main() that goes on to the main loop when connect raises.
main_connect_goes_on(ok) ==
  /\ phase = "setup"
  /\ sections = <<>>
  /\ phase' = IF active_services # <<>> THEN "running" ELSE "exited"
  /\ last' = [Quiet EXCEPT !.op = "main_connect", !.caught = ~ok]
  /\ UNCHANGED <<dev, props, idle, connected, prev, left, sections, active_services,
                 all_topics_to_subscribe, subscriptions, connects, wizard>>

\* main(): mqtt_client.connect and loop_start after the loop.  connect returns
\* once the CONNECT packet is sent (ok), or raises when the broker cannot be
\* reached: the except clause logs and calls sys.exit(1).  The script also
\* exits when no service was started.
main_connect(ok) ==
  /\ phase = "setup"
  /\ sections = <<>>
  /\ phase' = IF ok /\ active_services # <<>> THEN "running" ELSE "exited"
  /\ last' = [Quiet EXCEPT !.op = "main_connect", !.caught = ~ok]
  /\ UNCHANGED <<dev, props, idle, connected, prev, left, sections, active_services,
                 all_topics_to_subscribe, subscriptions, connects, wizard>>

\* A connect handler that subscribes on the first connection only.
on_mqtt_connect_global_first_only(rc) ==
  /\ phase = "running"
  /\ ~connected
  /\ connects < MaxConnects
  /\ connects' = connects + 1
  /\ LET userdata == all_topics_to_subscribe
         subscribed == IF rc = 0 /\ userdata # {} /\ connects = 0 THEN userdata ELSE {}
     IN /\ connected' = (rc = 0)
        /\ subscriptions' = subscriptions \cup subscribed
        /\ last' = [Quiet EXCEPT !.op = "connect", !.rc = rc, !.subscribed = subscribed]
  /\ UNCHANGED <<dev, props, idle, prev, left, sections, active_services,
                 all_topics_to_subscribe, phase, wizard>>

\* on_mqtt_connect_global: the broker has answered a connection attempt.
on_mqtt_connect_global(rc) ==
  /\ phase = "running"
  /\ ~connected
  /\ connects < MaxConnects
  /\ connects' = connects + 1
  /\ LET userdata == all_topics_to_subscribe
         subscribed == IF rc = 0 /\ userdata # {} THEN userdata ELSE {}
     IN /\ connected' = (rc = 0)
        /\ subscriptions' = subscriptions \cup subscribed
        /\ last' = [Quiet EXCEPT !.op = "connect", !.rc = rc, !.subscribed = subscribed]
  /\ UNCHANGED <<dev, props, idle, prev, left, sections, active_services,
                 all_topics_to_subscribe, phase, wizard>>

\* A disconnect handler that empties the global subscription set.
on_mqtt_disconnect_forgets ==
  /\ phase = "running"
  /\ connected
  /\ connected' = FALSE
  /\ subscriptions' = {}
  /\ all_topics_to_subscribe' = {}
  /\ last' = [Quiet EXCEPT !.op = "disconnect"]
  /\ UNCHANGED <<dev, props, idle, prev, left, sections, active_services, phase,
                 connects, wizard>>

\* on_mqtt_disconnect: the connection is lost; the handler only logs. The
\* client's session is clean, so the broker drops its subscriptions.
on_mqtt_disconnect ==
  /\ phase = "running"
  /\ connected
  /\ connected' = FALSE
  /\ subscriptions' = {}
  /\ last' = [Quiet EXCEPT !.op = "disconnect"]
  /\ UNCHANGED <<dev, props, idle, prev, left, sections, active_services,
                 all_topics_to_subscribe, phase, connects, wizard>>

\* The callbacks of service n.
Tagged(cbs, n) ==
  [i \in DOMAIN cbs |->
     [v |-> cbs[i].v, path |-> cbs[i].path, rep |-> cbs[i].rep, src |-> cbs[i].src,
      f |-> cbs[i].f, service |-> n]]

\* The answers of the services to one message, in registry order.
Answers(services, topic, payload) ==
  [n \in DOMAIN services |->
     on_mqtt_message_specific(services[n].dev, services[n].props, topic, payload)]

\* The callbacks the services queue for one message, in registry order.
Dispatched(answers) ==
  LET upto[n \in 0..Len(answers)] ==
        IF n = 0 THEN <<>> ELSE upto[n - 1] \o Tagged(answers[n].cbs, n)
  IN upto[Len(answers)]

\* The loop of on_mqtt_message_dispatcher over the services.
Delivered(topic, payload, answers) ==
  /\ idle' = idle \o Dispatched(answers)
  /\ last' = [Quiet EXCEPT !.op = "msg", !.topic = topic, !.payload = payload,
                           !.delivered = DOMAIN answers,
                           !.processed = {i \in DOMAIN answers : answers[i].handled},
                           !.sched = Dispatched(answers)]

\* on_mqtt_message_dispatcher: the broker delivers a message on a topic the
\* session is subscribed to. msg.payload.decode() in the first statement
\* raises on bytes that are not UTF-8, before the loop over the services.
on_mqtt_message_dispatcher(topic, payload) ==
  /\ phase = "running"
  /\ connected
  /\ topic \in subscriptions
  /\ left > 0
  /\ left' = left - 1
  /\ IF ~payload.utf8
     THEN /\ last' = [Quiet EXCEPT !.op = "msg", !.topic = topic, !.payload = payload,
                                   !.raised = TRUE]
          /\ idle' = idle
     ELSE Delivered(topic, payload, Answers(active_services, topic, payload))
  /\ UNCHANGED <<dev, props, connected, prev, main, wizard>>

\* A callback run on service i; r = [store, set] is what it leaves.
ServiceUpdated(cb, before, r) ==
  /\ active_services' = [active_services EXCEPT ![cb.service].props = r.store]
  /\ last' = [Quiet EXCEPT !.op = "idle", !.f = cb.f, !.path = cb.path,
                           !.value = cb.v, !.src = cb.src, !.service = cb.service,
                           !.was = before[cb.path], !.set = r.set,
                           !.changed = Diff(before, r.store)]

\* GLib.MainLoop().run(): the oldest queued callback runs on its service.
MainLoop ==
  /\ phase = "running"
  /\ idle # <<>>
  /\ ServiceUpdated(Head(idle), active_services[Head(idle).service].props,
          run_callback(active_services[Head(idle).service].dev,
                       active_services[Head(idle).service].props, Head(idle)))
  /\ idle' = Tail(idle)
  /\ UNCHANGED <<dev, props, connected, prev, left, sections, all_topics_to_subscribe,
                 subscriptions, phase, connects, wizard>>

\* handle_dbus_change of a sensor of any class: [ret, save, sched]
handle_dbus_change(d, path, value) ==
  CASE d.kind = "temp" -> TempHandleChange(d, path, value)
    [] d.kind = "battery" -> BatteryHandleChange(d, path, value)
    [] d.kind = "pvcharger" -> PvChargerHandleChange(d, path, value)
    [] d.kind = "tank" -> TankHandleChange(d, path, value)

\* An accepted write commits on service n; r = [ret, save, sched] is the
\* answer of its handler.
ServiceWritten(n, path, value, r, fails) ==
  /\ active_services' =
       IF r.ret THEN [active_services EXCEPT ![n].props[path] = value]
       ELSE active_services
  /\ idle' = idle \o Tagged(r.sched, n)
  /\ last' = [Quiet EXCEPT !.op = "write", !.path = path, !.value = value,
                           !.ret = r.ret, !.save = r.save,
                           !.sched = Tagged(r.sched, n),
                           !.was = active_services[n].props[path],
                           !.set = IF r.ret THEN {path} ELSE {},
                           !.service = n, !.failed = fails /\ r.save # <<>>]

\* An external write of the custom name of a service of the registry.
ServiceWrite(n, value) ==
  /\ phase = "running"
  /\ n \in DOMAIN active_services
  /\ left > 0
  /\ left' = left - 1
  /\ \E fails \in BOOLEAN :
       ServiceWritten(n, CustomNamePath, value,
         Persisted(handle_dbus_change(active_services[n].dev, CustomNamePath, value),
                   fails), fails)
  /\ UNCHANGED <<dev, props, connected, prev, sections, all_topics_to_subscribe,
                 subscriptions, phase, connects, wizard>>

NextMain ==
  \/ main_section
  \/ \E ok \in BOOLEAN : main_connect(ok)
  \/ \E rc \in {0, 5} : on_mqtt_connect_global(rc)
  \/ on_mqtt_disconnect
  \/ \E topic \in MainTopics, payload \in MainPayloads :
       on_mqtt_message_dispatcher(topic, payload)
  \/ MainLoop
  \/ \E n \in 1..MaxSections : ServiceWrite(n, PyStr("Cabin"))
SpecMain == InitMain /\ [][NextMain]_vars

\* ------------------------------------------------------------------------
\* config.py: the configuration script
\* ------------------------------------------------------------------------

\* Number of add, edit and remove operations in a run of the script.
MaxOps == 3

\* The highest number of inputs entered for a relay module.
MaxInputs == 2

\* The device families of the Add New Device menu other than the relay module.
SensorFamilies == {"Temp_Sensor", "Tank_Sensor", "Virtual_Battery", "Pv_Charger"}

\* A section of config.ini that carries a device instance: Relay_Module_<i>,
\* input_<i>_<k>, Temp_Sensor_<i>, Tank_Sensor_<i>, Virtual_Battery_<i>,
\* Pv_Charger_<i>, with its deviceinstance and deviceindex options.
DeviceSection(section, deviceinstance, deviceindex) ==
  [section |-> section, deviceinstance |-> deviceinstance, deviceindex |-> deviceindex]

Max(S) == CHOOSE x \in S : \A y \in S : y <= x

has_section(cfg, section) == \E e \in cfg : e.section = section
get_section(cfg, section) == CHOOSE e \in cfg : e.section = section

\* existing_<family>_by_index.keys(), as load_existing_config_data fills it
existing_by_index(cfg, name) == {e.section.dev : e \in {x \in cfg : x.section.name = name}}

\* max(existing.keys()) + 1 if existing else 1
next_idx(cfg, name) ==
  IF existing_by_index(cfg, name) # {} THEN Max(existing_by_index(cfg, name)) + 1 ELSE 1

\* load_existing_config_data: the highest value seen so far, raised to the
\* highest one of the sections of the file.
load_existing_config_data(highest, values) ==
  IF values = {} THEN highest
  ELSE IF Max(values) > highest THEN Max(values) ELSE highest

\* configure_relay_module: the module section and its input sections.  A new
\* module and its inputs take the counters; an edit keeps what the file holds
\* and gives every input that is not in the file highest + 1; the input
\* sections above the number of inputs are removed.
configure_relay_module(cfg, counter, sequencer, current_module_idx, is_new_device_flow, num_inputs, highest_instance, highest_index) ==
  LET module_idx == IF is_new_device_flow THEN next_idx(cfg, "Relay_Module")
                    ELSE current_module_idx
      relay_module_section == Section("Relay_Module", module_idx, 0)
      module == IF is_new_device_flow
                THEN DeviceSection(relay_module_section, counter, sequencer)
                ELSE get_section(cfg, relay_module_section)
      inputs == {IF is_new_device_flow
                 THEN DeviceSection(Section("input", module_idx, k), counter + k,
                                    sequencer + k)
                 ELSE IF has_section(cfg, Section("input", module_idx, k))
                 THEN get_section(cfg, Section("input", module_idx, k))
                 ELSE DeviceSection(Section("input", module_idx, k),
                                    highest_instance + 1, highest_index + 1) :
                 k \in 1..num_inputs}
      others == {e \in cfg : ~(e.section.name \in {"Relay_Module", "input"}
                               /\ e.section.dev = module_idx)}
  IN [config |-> others \cup {module} \cup inputs,
      device_instance_counter |->
        IF is_new_device_flow THEN counter + 1 + num_inputs ELSE counter,
      device_index_sequencer |->
        IF is_new_device_flow THEN sequencer + 1 + num_inputs ELSE sequencer]

\* configure_temp_sensor, configure_tank_sensor, configure_virtual_battery,
\* configure_pv_charger: a new sensor takes the counters, an edit keeps the
\* instance and the index of the file.
configure_sensor(cfg, name, counter, sequencer, current_idx, is_new_device_flow) ==
  LET sensor_idx == IF is_new_device_flow THEN next_idx(cfg, name) ELSE current_idx
      section == Section(name, sensor_idx, 0)
      sensor == IF is_new_device_flow THEN DeviceSection(section, counter, sequencer)
                ELSE get_section(cfg, section)
  IN [config |-> {e \in cfg : e.section # section} \cup {sensor},
      device_instance_counter |-> IF is_new_device_flow THEN counter + 1 ELSE counter,
      device_index_sequencer |-> IF is_new_device_flow THEN sequencer + 1 ELSE sequencer]

\* The file is written and load_existing_config_data reads it back: r is what
\* the operation has left of the sections and the counters.
Saved(r) ==
  /\ config' = r.config
  /\ device_instance_counter' = r.device_instance_counter
  /\ device_index_sequencer' = r.device_index_sequencer
  /\ highest_existing_device_instance' =
       load_existing_config_data(highest_existing_device_instance,
                                 {e.deviceinstance : e \in r.config})
  /\ highest_existing_device_index' =
       load_existing_config_data(highest_existing_device_index,
                                 {e.deviceindex : e \in r.config})
  /\ UNCHANGED <<dev, props, idle, connected, prev, main, discovered_modules_and_topics>>

\* Main menu 2, Add New Device: a relay module with num_inputs inputs, or a
\* sensor of one of the other families.
AddDevice(name, num_inputs) ==
  /\ dev.kind = "config"
  /\ left > 0
  /\ left' = left - 1
  /\ last' = [Quiet EXCEPT !.op = "add"]
  /\ Saved(IF name = "Relay_Module"
           THEN configure_relay_module(config, device_instance_counter,
                  device_index_sequencer, 0, TRUE, num_inputs,
                  highest_existing_device_instance, highest_existing_device_index)
           ELSE configure_sensor(config, name, device_instance_counter,
                  device_index_sequencer, 0, TRUE))

\* The devices of the Edit and Remove menus: every section but the inputs.
editable_devices == {e.section : e \in {x \in config : x.section.name # "input"}}

\* Main menu 3, Edit Existing Device
EditDevice(section, num_inputs) ==
  /\ dev.kind = "config"
  /\ left > 0
  /\ section \in editable_devices
  /\ left' = left - 1
  /\ last' = [Quiet EXCEPT !.op = "edit"]
  /\ Saved(IF section.name = "Relay_Module"
           THEN configure_relay_module(config, device_instance_counter,
                  device_index_sequencer, section.dev, FALSE, num_inputs,
                  highest_existing_device_instance, highest_existing_device_index)
           ELSE configure_sensor(config, section.name, device_instance_counter,
                  device_index_sequencer, section.dev, FALSE))

\* Main menu 4, Remove Existing Device: the section, and with a relay module
\* the sections of its inputs.
RemoveDevice(section) ==
  /\ dev.kind = "config"
  /\ left > 0
  /\ section \in editable_devices
  /\ left' = left - 1
  /\ last' = [Quiet EXCEPT !.op = "remove"]
  /\ Saved([config |->
              {e \in config :
                 /\ e.section # section
                 /\ ~(section.name = "Relay_Module" /\ e.section.name = "input"
                      /\ e.section.dev = section.dev)},
            device_instance_counter |-> device_instance_counter,
            device_index_sequencer |-> device_index_sequencer])

\* A device index taken from the deviceindex option of the file.
device_index_of_file(e) == e.deviceindex

\* external_devices.main: re.search(r'_(\d+)', section), the first number of
\* the section name, stored as device_config['DeviceIndex'].  Option names
\* are case-insensitive, so this replaces the deviceindex option of the file:
\* Relay_Module_<i>, input_<i>_<k> and <Family>_<i> all give i.
device_index(e) == e.section.dev

\* The Devices main() builds from a set of sections, one per section.
RECURSIVE registry(_)
registry(cfg) ==
  IF cfg = {} THEN <<>>
  ELSE LET e == CHOOSE x \in cfg :
                  \A y \in cfg : <<x.deviceinstance, x.section.dev, x.section.out>> =
                                 <<y.deviceinstance, y.section.dev, y.section.out>>
                                 \/ x.deviceinstance < y.deviceinstance
                                 \/ (x.deviceinstance = y.deviceinstance
                                     /\ x.section.out <= y.section.out)
       IN <<[dev |-> [kind |-> device_type_map(e.section.name),
                      DeviceIndex |-> device_index(e),
                      config_section_name |-> e.section]]>>
          \o registry(cfg \ {e})

\* external_devices.main started on the file the script has written: the
\* registry of the Devices of its sections.
StartServices ==
  /\ dev.kind = "config"
  /\ active_services # registry(config)
  /\ active_services' = registry(config)
  /\ last' = [Quiet EXCEPT !.op = "main"]
  /\ UNCHANGED <<dev, props, idle, connected, prev, left, sections,
                 all_topics_to_subscribe, subscriptions, phase, connects, wizard>>

\* create_or_edit_config without a config file: the counters start one above
\* the defaults of the highest instance (99) and the highest index (0).
InitConfig ==
  /\ dev = [kind |-> "config"]
  /\ props = <<>>
  /\ idle = <<>>
  /\ connected = FALSE
  /\ last = Quiet
  /\ prev = <<>>
  /\ left = MaxOps
  /\ NoMain
  /\ NoWizard

AllSections ==
  {Section(name, i, 0) : name \in SensorFamilies \cup {"Relay_Module"}, i \in 1..MaxOps}

NextConfig ==
  \/ \E num_inputs \in 0..MaxInputs : AddDevice("Relay_Module", num_inputs)
  \/ \E name \in SensorFamilies : AddDevice(name, 0)
  \/ \E section \in AllSections, num_inputs \in 0..MaxInputs :
       EditDevice(section, IF section.name = "Relay_Module" THEN num_inputs ELSE 0)
  \/ \E section \in AllSections : RemoveDevice(section)
  \/ StartServices
SpecConfig == InitConfig /\ [][NextConfig]_vars

\* ------------------------------------------------------------------------
\* config.py: discovery of relay modules from MQTT topics
\* ------------------------------------------------------------------------

\* Number of messages received while discover_devices_via_mqtt listens.
MaxDiscovered == 2

\* A topic of the discovery is a sequence of segments, the parts between the
\* slashes; a segment is a sequence of pieces, and the words the patterns name
\* are pieces of their own ("relaya1" is <<"relay", "a1">>).
DigitPieces == {"0", "7", "12"}
LetterPieces ==
  {"dingtian", "Dingtian", "relay", "out", "Out", "in", "i", "r", "a1", "x", "home",
   "shelly", "Shelly", "SHELLY", "plus", "status", "Status", "STATUS", "switch",
   "Switch", "SWITCH", "input"}

\* [0-9]+, [a-zA-Z0-9]+ and [a-zA-Z0-9_-]+ on one piece
IsDigits(p) == p \in DigitPieces
IsAlnum(p) == p \in DigitPieces \cup LetterPieces
IsWordDash(p) == IsAlnum(p) \/ p \in {"-", "_"}

\* A comparison of pieces that respects the letter case.
ExactCase(p) == p

\* re.IGNORECASE: a piece and a lower-case word of a pattern
IgnoreCase(p) ==
  CASE p \in {"Shelly", "SHELLY"} -> "shelly"
    [] p \in {"Status", "STATUS"} -> "status"
    [] p \in {"Switch", "SWITCH"} -> "switch"
    [] p = "Dingtian" -> "dingtian"
    [] p = "Out" -> "out"
    [] OTHER -> p

\* ([a-zA-Z0-9_-]*dingtian[a-zA-Z0-9_-]*) on a whole segment
dingtian_segment(s) ==
  /\ \A i \in DOMAIN s : IsWordDash(s[i])
  /\ \E i \in DOMAIN s : s[i] = "dingtian"

\* (relay[a-zA-Z0-9]+) on a whole segment
relay_segment(s) ==
  /\ Len(s) >= 2
  /\ s[1] = "relay"
  /\ \A i \in 2..Len(s) : IsAlnum(s[i])

\* (shelly[a-zA-Z0-9_-]+) on a whole segment, ignoring case
shelly_segment(s) ==
  /\ Len(s) >= 2
  /\ IgnoreCase(s[1]) = "shelly"
  /\ \A i \in 2..Len(s) : IsWordDash(s[i])

\* (?:^|.*/) in front of the first group: re.search takes the segment at the
\* start of the topic when the rest matches from there, and otherwise the
\* last segment from which it does (.* is greedy).
group_start(starts) == IF 1 \in starts THEN 1 ELSE Max(starts)

\* The segments at which the first group of the Dingtian input pattern can
\* start: <dingtian>/<relay..>/(?:.*/)?out/i<digits>$
dingtian_input_match(topic) ==
  LET n == Len(topic) IN
  {p \in 1..(n - 3) :
     /\ dingtian_segment(topic[p])
     /\ relay_segment(topic[p + 1])
     /\ topic[n - 1] = <<"out">>
     /\ Len(topic[n]) = 2 /\ topic[n][1] = "i" /\ IsDigits(topic[n][2])}

\* The same for the Dingtian pattern <dingtian>/<relay..>/(?:.*/)?(out|in)/r<digits>$
dingtian_match(topic) ==
  LET n == Len(topic) IN
  {p \in 1..(n - 3) :
     /\ dingtian_segment(topic[p])
     /\ relay_segment(topic[p + 1])
     /\ topic[n - 1] \in {<<"out">>, <<"in">>}
     /\ Len(topic[n]) = 2 /\ topic[n][1] = "r" /\ IsDigits(topic[n][2])}

\* The same for the Shelly pattern <shelly..>(?:/.*)?/status/switch:<digits>$
\* under re.IGNORECASE
shelly_match(topic) ==
  LET n == Len(topic) IN
  {p \in 1..(n - 2) :
     /\ shelly_segment(topic[p])
     /\ Len(topic[n - 1]) = 1 /\ IgnoreCase(topic[n - 1][1]) = "status"
     /\ Len(topic[n]) = 3 /\ IgnoreCase(topic[n][1]) = "switch"
     /\ topic[n][2] = ":" /\ IsDigits(topic[n][3])}

\* A str whose text is a sequence of pieces or of segments
PyText(items) == [s |-> "", t |-> "str", n |-> 0, items |-> items]

\* The tuple parse_mqtt_device_topic returns
Parsed(device_type, module_serial, component_type, component_id, full_topic_base) ==
  PyList(<<device_type, module_serial, component_type, component_id, full_topic_base>>)

\* parse_mqtt_device_topic with one Dingtian pattern for out/i<digits> and
\* (out|in)/r<digits>, which reports the segment in front of the last one.
parse_mqtt_device_topic_generic(topic) ==
  LET n == Len(topic) IN
  IF dingtian_input_match(topic) \cup dingtian_match(topic) # {}
  THEN LET p == group_start(dingtian_input_match(topic) \cup dingtian_match(topic)) IN
       Parsed(PyStr("dingtian"), PyText(topic[p + 1]), PyStr(topic[n - 1][1]),
              PyStr(topic[n][2]), PyText(<<topic[p], topic[p + 1]>>))
  ELSE IF shelly_match(topic) # {}
  THEN LET p == group_start(shelly_match(topic)) IN
       Parsed(PyStr("shelly"), PyText(topic[p]), PyStr("relay"), PyStr(topic[n][3]),
              PyText(<<topic[p]>>))
  ELSE Parsed(PyNone, PyNone, PyNone, PyNone, PyNone)

\* parse_mqtt_device_topic: the three patterns in their order; the first one
\* that matches returns.
parse_mqtt_device_topic(topic) ==
  LET n == Len(topic) IN
  IF dingtian_input_match(topic) # {}
  THEN LET p == group_start(dingtian_input_match(topic)) IN
       Parsed(PyStr("dingtian"), PyText(topic[p + 1]), PyStr("in"), PyStr(topic[n][2]),
              PyText(<<topic[p], topic[p + 1]>>))
  ELSE IF dingtian_match(topic) # {}
  THEN LET p == group_start(dingtian_match(topic)) IN
       Parsed(PyStr("dingtian"), PyText(topic[p + 1]), PyStr(topic[n - 1][1]),
              PyStr(topic[n][2]), PyText(<<topic[p], topic[p + 1]>>))
  ELSE IF shelly_match(topic) # {}
  THEN LET p == group_start(shelly_match(topic)) IN
       Parsed(PyStr("shelly"), PyText(topic[p]), PyStr("relay"), PyStr(topic[n][3]),
              PyText(<<topic[p]>>))
  ELSE Parsed(PyNone, PyNone, PyNone, PyNone, PyNone)

\* discovered_modules_and_topics_global after on_message has handled a topic
\* with the tuple r: a module seen for the first time gets an entry, and the
\* topic joins the topics of the entry; without a serial nothing changes.
discovered(modules, topic, r) ==
  LET module_serial == r.items[2] IN
  IF module_serial = PyNone \/ module_serial.items = <<>> THEN modules
  ELSE IF \E e \in modules : e.module_serial = module_serial
  THEN {IF e.module_serial = module_serial
        THEN [e EXCEPT !.topics = @ \cup {topic}] ELSE e : e \in modules}
  ELSE modules \cup {[device_type |-> r.items[1], module_serial |-> module_serial,
                      topics |-> {topic}, base_topic_path |-> r.items[5]]}

\* on_message of the discovery client
on_message(topic) ==
  /\ dev.kind = "discovery"
  /\ left > 0
  /\ left' = left - 1
  /\ last' = [Quiet EXCEPT !.op = "on_message", !.topic = topic,
                           !.decoded = parse_mqtt_device_topic(topic)]
  /\ discovered_modules_and_topics' =
       discovered(discovered_modules_and_topics, topic, parse_mqtt_device_topic(topic))
  /\ UNCHANGED <<dev, props, idle, connected, prev, main, config,
                 device_instance_counter, device_index_sequencer,
                 highest_existing_device_instance, highest_existing_device_index>>

\* The topics of the model: Dingtian and Shelly shapes with and without
\* leading and middle segments, in several letter cases, with endings that
\* no pattern takes, and topics that hold two modules.
DingtianTopics ==
  {lead \o <<family, serial>> \o middle \o ending :
     lead \in {<<>>, << <<"home">> >>},
     family \in {<<"dingtian">>, <<"x", "-", "dingtian">>, <<"Dingtian">>},
     serial \in {<<"relay", "a1">>, <<"relay", "7">>, <<"relay">>},
     middle \in {<<>>, << <<"x">> >>},
     ending \in {<< <<"out">>, <<"i", "7">> >>, << <<"out">>, <<"r", "7">> >>,
                 << <<"in">>, <<"r", "12">> >>, << <<"in">>, <<"i", "0">> >>,
                 << <<"out">>, <<"i">> >>, << <<"Out">>, <<"i", "7">> >>}}
ShellyTopics ==
  {lead \o <<serial>> \o middle \o ending :
     lead \in {<<>>, << <<"home">> >>},
     serial \in {<<"shelly", "plus">>, <<"Shelly", "plus">>, <<"SHELLY", "-", "a1">>,
                 <<"shelly">>},
     middle \in {<<>>, << <<"x">> >>},
     ending \in {<< <<"status">>, <<"switch", ":", "0">> >>,
                 << <<"Status">>, <<"Switch", ":", "7">> >>,
                 << <<"STATUS">>, <<"SWITCH", ":", "12">> >>,
                 << <<"status">>, <<"switch", "0">> >>,
                 << <<"status">>, <<"input", ":", "0">> >>}}
MixedTopics ==
  { << <<"dingtian">>, <<"relay", "a1">>, <<"dingtian">>, <<"relay", "7">>, <<"out">>,
       <<"i", "7">> >>,
    << <<"home">>, <<"dingtian">>, <<"relay", "a1">>, <<"x", "-", "dingtian">>,
       <<"relay", "7">>, <<"in">>, <<"r", "12">> >>,
    << <<"shelly", "plus">>, <<"dingtian">>, <<"relay", "a1">>, <<"out">>, <<"i", "7">> >>,
    << <<"dingtian">>, <<"relay", "a1">>, <<"Shelly", "plus">>, <<"status">>,
       <<"switch", ":", "0">> >>,
    << <<"home">>, <<"x">> >> }
DiscoveryTopics == DingtianTopics \cup ShellyTopics \cup MixedTopics

InitDiscovery ==
  /\ dev = [kind |-> "discovery"]
  /\ props = <<>>
  /\ idle = <<>>
  /\ connected = FALSE
  /\ last = Quiet
  /\ prev = <<>>
  /\ left = MaxDiscovered
  /\ NoMain
  /\ NoWizard

NextDiscovery == \E topic \in DiscoveryTopics : on_message(topic)
SpecDiscovery == InitDiscovery /\ [][NextDiscovery]_vars

\* ------------------------------------------------------------------------
\* Properties of the relay module
\* ------------------------------------------------------------------------

\* The last call handled a decodable-as-text message on a subscribed topic.
SubscribedMessage ==
  /\ last.op = "msg"
  /\ last.topic \in dev.mqtt_subscriptions
  /\ last.payload.utf8

LastJson == json_loads(strip(last.payload.text))

\* The message is a JSON object that carries the one key of the configured
\* single-key payload, with a value equal to the configured one as text,
\* letter case aside.
Carries(configured) ==
  /\ configured # PyNone
  /\ LastJson.ok
  /\ LastJson.v.t = "dict"
  /\ HasKey(LastJson.v, configured.items[1][1])
  /\ lower(str(GetKey(LastJson.v, configured.items[1][1])))
       = lower(str(configured.items[1][2]))

\* The key is a plain field name and the value carried is not null.
PlainKey(configured) ==
  /\ split_dots(configured.items[1][1]) = <<configured.items[1][1]>>
  /\ GetKey(LastJson.v, configured.items[1][1]) # PyNone

\* C1 (as stated): on a relay module whose ON (OFF) state payload is a
\* single-key object, every message on a state topic whose JSON carries that
\* key with the configured value decodes to ON (OFF).
C1_Original ==
  (dev.kind = "switch" /\ SubscribedMessage) =>
    /\ Carries(dev.mqtt_on_state_payload_json) => last.decoded = PyInt(1)
    /\ Carries(dev.mqtt_off_state_payload_json) => last.decoded = PyInt(0)

\* C1 (amended): the same, for a key without a '.' (a dotted key names a
\* nested field) and a carried value other than null; the OFF comparison
\* decides only when the ON comparison has not matched.
C1_StructuredDecode ==
  (dev.kind = "switch" /\ SubscribedMessage) =>
    /\ (Carries(dev.mqtt_on_state_payload_json)
        /\ PlainKey(dev.mqtt_on_state_payload_json)) => last.decoded = PyInt(1)
    /\ (Carries(dev.mqtt_off_state_payload_json)
        /\ PlainKey(dev.mqtt_off_state_payload_json)
        /\ ~(Carries(dev.mqtt_on_state_payload_json)
             /\ PlainKey(dev.mqtt_on_state_payload_json))) => last.decoded = PyInt(0)

\* A message decoded ON through its field although its text is not the
\* configured payload text, in any letter case.
C1_Witness ==
  /\ dev.kind = "switch" /\ SubscribedMessage
  /\ Carries(dev.mqtt_on_state_payload_json)
  /\ PlainKey(dev.mqtt_on_state_payload_json)
  /\ lower(strip(last.payload.text)) # lower(dev.mqtt_on_state_payload_raw)
  /\ last.decoded = PyInt(1)
  /\ Len(last.sched) = 1

\* The structured comparison decides nothing for the message.
NoStructuredDetermination ==
  ~(LastJson.ok /\ (structured_match(LastJson.v, dev.mqtt_on_state_payload_json)
                    \/ structured_match(LastJson.v, dev.mqtt_off_state_payload_json)))

\* C2 (as stated): when the structured comparison decides nothing, a payload
\* whose trimmed text is the configured ON (OFF) state payload, letter case
\* aside, decodes to ON (OFF) and the update of the output's state is queued
\* unless the output already holds it.
C2_RawDecode ==
  (dev.kind = "switch" /\ SubscribedMessage /\ NoStructuredDetermination) =>
    LET text == lower(strip(last.payload.text))
        path == SwitchPathOf(dev, last.topic)
        applied(v) == /\ last.decoded = v
                      /\ (PyEq(props[path], v) \/ Len(last.sched) = 1)
    IN /\ text = lower(dev.mqtt_on_state_payload_raw) => applied(PyInt(1))
       /\ (text = lower(dev.mqtt_off_state_payload_raw)
           /\ text # lower(dev.mqtt_on_state_payload_raw)) => applied(PyInt(0))

\* An accepted external write of the state of output k.
StateWrite ==
  /\ dev.kind = "switch"
  /\ last.op = "write"
  /\ last.path.o > 0 /\ last.path.g = "" /\ last.path.k = "State"
  /\ last.ret

\* The one command the write of last.value to output k is to publish.
ExpectedCommand ==
  [topic |-> dev.outputs[last.path.o].MqttCommandTopic,
   payload |-> IF PyEq(last.value, PyInt(1)) THEN dev.mqtt_on_command_payload
               ELSE dev.mqtt_off_command_payload,
   retain |-> FALSE]

\* C5 (as stated): an accepted write of output k's state publishes the ON or
\* OFF command payload to k's command topic and to no other, and changes no
\* other output's state.
C5_Original ==
  StateWrite =>
    /\ last.pub = <<ExpectedCommand>>
    /\ last.changed \subseteq {last.path}

\* C5 (amended): the publish is made when the client is connected and both
\* topics of output k are configured; otherwise the write is accepted and
\* nothing is published.
C5_WritePublishes ==
  StateWrite =>
    /\ IF connected /\ is_valid_topic(dev.outputs[last.path.o].MqttStateTopic)
          /\ is_valid_topic(dev.outputs[last.path.o].MqttCommandTopic)
       THEN last.pub = <<ExpectedCommand>>
       ELSE last.pub = <<>>
    /\ last.changed \subseteq {last.path}

\* Output 2 was written ON: the ON command went to its command topic and
\* output 1 kept its state.
C5_Witness ==
  /\ StateWrite
  /\ last.path.o = 2
  /\ last.value = PyInt(1)
  /\ last.pub = <<ExpectedCommand>>
  /\ last.changed = {StatePath(2)}
  /\ props[StatePath(1)] = PyInt(0)

\* C6: a publish is made only inside the handler of an accepted external
\* write, once, and never retained.
C6_PublishOnlyInWrite ==
  last.pub # <<>> =>
    /\ last.op = "write"
    /\ last.ret
    /\ Len(last.pub) = 1
    /\ ~last.pub[1].retain

C6_Witness ==
  /\ last.op = "write"
  /\ last.ret
  /\ Len(last.pub) = 1
  /\ ~last.pub[1].retain

\* C7: a write of an output's state issues no persistence write; a write of
\* an output's name or group issues exactly one, to that output's section,
\* and publishes nothing.
C7_PersistSettingsOnly ==
  (dev.kind = "switch" /\ last.op = "write" /\ last.path.o > 0) =>
    /\ (last.path.g = "" /\ last.path.k = "State") => last.save = <<>>
    /\ (last.path.g = "Settings" /\ last.path.k \in {"CustomName", "Group"}) =>
         /\ Len(last.save) = 1
         /\ last.save[1].section = Section("switch", dev.DeviceIndex, last.path.o)
         /\ last.save[1].key = last.path.k
         /\ last.pub = <<>>

\* The group of output 2 was written after a state write of output 2.
C7_Witness ==
  /\ dev.kind = "switch" /\ last.op = "write"
  /\ last.path = Path(2, "Settings", "Group")
  /\ Len(last.save) = 1
  /\ last.save[1].section = Section("switch", 1, 2)
  /\ props[StatePath(2)] = PyInt(1)

\* ------------------------------------------------------------------------
\* Properties of the digital input
\* ------------------------------------------------------------------------

\* raw XOR inversion, as 0 or 1.
Logical(raw, invert) ==
  IF invert.n = 1000 THEN 1 - raw.n \div 1000 ELSE raw.n \div 1000

AlarmTypes ==
  {DIGITAL_INPUT_TYPES[name] :
     name \in {"bilge alarm", "burglar alarm", "smoke alarm", "fire alarm", "co2 alarm"}}

\* The table as stated: door alarm, the five alarm types, pass-through.
StatedTable(type, logical) ==
  IF type = PyInt(DIGITAL_INPUT_TYPES["door alarm"])
  THEN IF logical = 1 THEN PyInt(7) ELSE PyInt(6)
  ELSE IF \E a \in AlarmTypes : type = PyInt(a)
  THEN IF logical = 1 THEN PyInt(9) ELSE PyInt(8)
  ELSE PyInt(logical)

\* The table with the bilge pump's own two codes.
DisplayTable(type, logical) ==
  IF type = PyInt(DIGITAL_INPUT_TYPES["bilge pump"])
  THEN IF logical = 1 THEN PyInt(3) ELSE PyInt(2)
  ELSE StatedTable(type, logical)

\* The update of the display state the last handler call queued, if any.
DisplayUpdates ==
  SelectSeq(last.sched, LAMBDA cb : cb.f = "update_dbus_state")

\* The handler derived `expect` for the display state: it queued exactly that
\* update, or queued none because the property already holds it.
Derived(expect) ==
  IF PyEq(props[InputDisplayPath], expect)
  THEN DisplayUpdates = <<>>
  ELSE Len(DisplayUpdates) = 1 /\ DisplayUpdates[1].v = expect

\* A message decoded to a raw state 0 or 1.
RawStateMessage ==
  /\ dev.kind = "digitalinput"
  /\ SubscribedMessage
  /\ last.decoded \in {PyInt(0), PyInt(1)}

\* C9: an accepted write of the inversion flag queues the recomputation of
\* the display state from the raw state held and the new flag, and the
\* callback stores it; a door alarm with raw state 1 goes to the normal code
\* when the flag is set to 1.
C9_InversionRecomputes ==
  dev.kind = "digitalinput" =>
    /\ (last.op = "write" /\ last.path = InvertTranslationPath /\ last.ret) =>
         /\ last.sched =
              <<Callback("update_dbus_state", InputDisplayPath,
                         DisplayTable(props[InputTypePath],
                                      Logical(props[InputStatePath], last.value)),
                         "write", FALSE)>>
         /\ (props[InputTypePath] = PyInt(2) /\ props[InputStatePath] = PyInt(1)
             /\ last.value = PyInt(1)) => last.sched[1].v = PyInt(6)
    /\ (last.op = "idle" /\ last.src = "write" /\ last.path = InputDisplayPath) =>
         props[InputDisplayPath] = last.value

\* A door alarm in alarm (raw 1, not inverted) whose flag was set to 1: the
\* display state went from the alarm code to the normal code with no message.
C9_Witness ==
  /\ dev.kind = "digitalinput"
  /\ last.op = "idle" /\ last.src = "write"
  /\ props[InputTypePath] = PyInt(2)
  /\ props[InputStatePath] = PyInt(1)
  /\ props[InvertTranslationPath] = PyInt(1)
  /\ last.was = PyInt(7)
  /\ props[InputDisplayPath] = PyInt(6)

\* C10 (as stated): the display state derived for a message is
\* table(type, raw XOR inversion): door alarm to its alarm and normal codes,
\* the five alarm types to one alarm/normal pair, every other type unchanged.
C10_Original ==
  RawStateMessage =>
    Derived(StatedTable(props[InputTypePath],
                        Logical(last.decoded, props[InvertTranslationPath])))

\* C10 (amended): the same, with the bilge pump mapped to its own pair of
\* codes (3 for logical 1, 2 for logical 0) rather than passed through.
C10_DerivedState ==
  RawStateMessage =>
    Derived(DisplayTable(props[InputTypePath],
                         Logical(last.decoded, props[InvertTranslationPath])))

\* An inverted burglar alarm received raw 0: the alarm code was queued.
C10_Witness ==
  /\ RawStateMessage
  /\ props[InputTypePath] = PyInt(DIGITAL_INPUT_TYPES["burglar alarm"])
  /\ props[InvertTranslationPath] = PyInt(1)
  /\ last.decoded = PyInt(0)
  /\ Len(DisplayUpdates) = 1
  /\ DisplayUpdates[1].v = PyInt(9)

\* ------------------------------------------------------------------------
\* Properties of the inbound path
\* ------------------------------------------------------------------------

\* The message is a JSON object with a `value` field.
HasValueField == LastJson.ok /\ LastJson.v.t = "dict" /\ HasKey(LastJson.v, "value")
ValueField == GetKey(LastJson.v, "value")

\* The value was applied: its update is queued, or the property holds it.
Applied(v) ==
  LET path == path_of_topic(dev.dbus_path_to_state_topic_map, last.topic) IN
  \/ Len(last.sched) = 1
  \/ PyEq(props[path], v)
  \/ PyEq(props[path], round2(v))

\* C3 (as stated): on a numeric channel of the temperature sensor, the tank
\* and the battery, an object with a numeric `value` field decodes to that
\* field, and any other payload whose trimmed text is a plain number decodes
\* to that number and is applied.
C3_NumericDecode ==
  (dev.kind \in {"temp", "tank", "battery"} /\ SubscribedMessage) =>
    LET plain == float_of_text(strip(last.payload.text)) IN
    /\ (HasValueField /\ ValueField.t \in {"int", "float"}) =>
         PyEq(last.decoded, ValueField)
    /\ (~HasValueField /\ plain.ok) =>
         /\ PyEq(last.decoded, plain.v)
         /\ Applied(plain.v)

\* The payload of the last message has no decoding on its channel: on a
\* boolean channel its token is neither configured payload, by field or by
\* text; on a numeric channel it is neither an object with a numeric `value`
\* nor a plain number (nor, on the charger's state channels, a state name).
Token == lower(strip(last.payload.text))
FieldToken == IF HasValueField THEN lower(str(ValueField)) ELSE Token

Undecodable ==
  CASE dev.kind = "switch" ->
         /\ NoStructuredDetermination
         /\ ~Carries(dev.mqtt_on_state_payload_json)
         /\ ~Carries(dev.mqtt_off_state_payload_json)
         /\ {Token, FieldToken} \cap {lower(dev.mqtt_on_state_payload_raw),
                                      lower(dev.mqtt_off_state_payload_raw)} = {}
    [] dev.kind = "digitalinput" ->
         Token \notin {lower(dev.mqtt_on_payload), lower(dev.mqtt_off_payload)}
    [] OTHER ->
         /\ IF HasValueField THEN ~float_of_value(ValueField).ok
            ELSE ~float_of_text(strip(last.payload.text)).ok
         /\ dev.kind = "pvcharger" =>
              /\ ~int_of_text(strip(last.payload.text)).ok
              /\ charger_state_map(Token) = PyNone
              /\ load_state_map(Token) = PyNone

\* C4 (as stated): a message on a subscribed topic whose payload cannot be
\* decoded is discarded: the handler returns without raising, no property is
\* changed and no callback is queued.
C4_UndecodableDiscarded ==
  (SubscribedMessage /\ Undecodable) =>
    /\ ~last.raised
    /\ last.changed = {}
    /\ last.sched = <<>>

\* C8 (as stated): a callback queued by a message that repeats the value
\* decoded from the previous message of its topic changes no property,
\* whatever the interleaving of messages and callbacks.
C8_RepeatChangesNothing ==
  (last.op = "idle" /\ last.rep) => last.changed = {}

\* ---------------------------------------------------------------------------
\* The tank sensor
\* ---------------------------------------------------------------------------

RawMode == dev.kind = "tank" /\ ~dev.is_level_direct
DirectMode == dev.kind = "tank" /\ dev.is_level_direct
Ran(f) == last.op = "idle" /\ last.f = f

\* The calibration of the worked example: empty 0, full 240, capacity 0.2.
ExampleCalibration ==
  /\ props[RawValueEmptyPath].n = 0
  /\ props[RawValueFullPath].n = 240000
  /\ props[CapacityPath].n = 200

\* C11: with empty 0, full 240 and capacity 0.2, an applied raw value of 0
\* gives level 0.00 and remaining 0.00, 240 gives 100.00 and 0.20, and 120
\* gives 50.00 and 0.10.
C11_RawExamples ==
  (RawMode /\ Ran("_update_raw_value_and_recalculate") /\ ExampleCalibration) =>
    /\ props[RawValuePath].n = 0 =>
         props[LevelPath] = PyFloat(0) /\ props[RemainingPath] = PyFloat(0)
    /\ props[RawValuePath].n = 240000 =>
         props[LevelPath] = PyFloat(100000) /\ props[RemainingPath] = PyFloat(200)
    /\ props[RawValuePath].n = 120000 =>
         props[LevelPath] = PyFloat(50000) /\ props[RemainingPath] = PyFloat(100)

C11_Witness ==
  /\ RawMode /\ Ran("_update_raw_value_and_recalculate") /\ ExampleCalibration
  /\ props[RawValuePath].n = 120000
  /\ props[LevelPath] = PyFloat(50000)
  /\ props[RemainingPath] = PyFloat(100)

\* C12: the mode of a tank is fixed by its descriptor and never changes: a
\* valid raw topic gives raw mode, in which the level topic is not subscribed
\* and no message sets Level directly; direct mode needs a raw topic that is
\* absent or a placeholder and a valid level topic.
C12_Mode ==
  dev.kind = "tank" =>
    /\ is_valid_topic(dev.RawValueStateTopic) =>
         /\ RawMode
         /\ RawValuePath \in paths_of(dev.dbus_path_to_state_topic_map)
         /\ LevelPath \notin paths_of(dev.dbus_path_to_state_topic_map)
         /\ dev.LevelStateTopic \notin dev.mqtt_subscriptions
    /\ DirectMode <=> (~is_valid_topic(dev.RawValueStateTopic)
                       /\ is_valid_topic(dev.LevelStateTopic))
    /\ DirectMode => /\ LevelPath \in paths_of(dev.dbus_path_to_state_topic_map)
                     /\ RawValuePath \notin paths_of(dev.dbus_path_to_state_topic_map)
    /\ RawMode =>
         /\ \A i \in DOMAIN idle : idle[i].f # "_update_level_and_recalculate"
         /\ ~Ran("_update_level_and_recalculate")
         /\ (last.op = "msg" /\ last.topic = dev.LevelStateTopic) => last.sched = <<>>
C12_OneMode == [](C12_Mode) /\ [][dev' = dev]_vars

\* A message on the level topic reached a tank in raw mode whose level topic
\* is valid.
C12_Witness ==
  /\ RawMode
  /\ is_valid_topic(dev.LevelStateTopic)
  /\ last.op = "msg" /\ last.topic = dev.LevelStateTopic /\ last.payload.utf8
  /\ json_loads(last.payload.text) # Failed
  /\ last.sched = <<>>

\* C13: Level is within [0, 100] in every state of a tank, and in raw mode
\* with full = empty every recomputation sets Level to 0.
C13_LevelInRange ==
  dev.kind = "tank" =>
    /\ IsNumber(props[LevelPath])
    /\ 0 <= props[LevelPath].n /\ props[LevelPath].n <= 100000
    /\ (RawMode /\ last.op = "idle" /\ LevelPath \in last.set
        /\ props[RawValueFullPath].n = props[RawValueEmptyPath].n) =>
          props[LevelPath].n = 0

\* A raw value above the full calibration was applied and clamped.
C13_Witness ==
  /\ RawMode /\ Ran("_update_raw_value_and_recalculate")
  /\ props[RawValueFullPath].n > props[RawValueEmptyPath].n
  /\ props[RawValuePath].n > props[RawValueFullPath].n
  /\ props[LevelPath] = PyFloat(100000)

\* The level and the remaining volume as the recomputation gives them.
ExpectedLevel ==
  LET e == props[RawValueEmptyPath].n
      f == props[RawValueFullPath].n
      r == props[RawValuePath].n
  IN IF f = e THEN 0
     ELSE IF (f > e /\ r <= e) \/ (f < e /\ r >= e) THEN 0
     ELSE IF (f > e /\ r >= f) \/ (f < e /\ r <= f) THEN 100000
     ELSE IF f > e THEN 10 * RoundHalfEven(10000 * (r - e), f - e)
     ELSE 10 * RoundHalfEven(10000 * (e - r), e - f)
ExpectedRemaining ==
  10 * RoundHalfEven(props[LevelPath].n * props[CapacityPath].n, 1000000)

\* C14: in direct mode a decoded level outside [0, 100] changes neither
\* Level nor Remaining and schedules nothing; one inside is stored as Level
\* (two decimals) and Remaining is recomputed from it and the capacity.
C14_DirectLevel ==
  DirectMode =>
    /\ (last.op = "msg" /\ last.topic = dev.LevelStateTopic
        /\ last.decoded # Undecoded /\ last.decoded # PyNone) =>
          /\ last.changed = {}
          /\ ~(0 <= last.decoded.n /\ last.decoded.n <= 100000) => last.sched = <<>>
          /\ (0 <= last.decoded.n /\ last.decoded.n <= 100000) =>
               \/ PyEq(props[LevelPath], round2(last.decoded))
               \/ /\ Len(last.sched) = 1
                  /\ last.sched[1].f = "_update_level_and_recalculate"
                  /\ last.sched[1].v = last.decoded
    /\ Ran("_update_level_and_recalculate") =>
          /\ 0 <= last.value.n /\ last.value.n <= 100000
          /\ props[LevelPath] = round2(last.value)
          /\ props[RemainingPath] = PyFloat(ExpectedRemaining)

\* A level of 23.456 was stored as 23.46 with the remaining volume 0.05.
C14_Witness ==
  /\ DirectMode /\ Ran("_update_level_and_recalculate")
  /\ last.value.n = 23456
  /\ props[LevelPath] = PyFloat(23460)
  /\ props[CapacityPath].n = 200
  /\ props[RemainingPath] = PyFloat(50)

\* C15: an accepted write of the empty or full calibration in raw mode
\* schedules the level and then the remaining recomputation, a capacity write
\* the remaining recomputation; when they have run Level is the value
\* recomputed from the raw value and the calibration, and Remaining the value
\* recomputed from Level and the capacity.
C15_WriteCascade ==
  dev.kind = "tank" =>
    /\ (last.op = "write" /\ last.ret
        /\ last.path \in {RawValueEmptyPath, RawValueFullPath} /\ RawMode) =>
          /\ Len(last.sched) = 2
          /\ last.sched[1].f = "_calculate_level_from_raw_value"
          /\ last.sched[2].f = "_calculate_remaining_from_level"
    /\ (last.op = "write" /\ last.ret /\ last.path = CapacityPath) =>
          /\ Len(last.sched) = 1
          /\ last.sched[1].f = "_calculate_remaining_from_level"
    /\ (Ran("_calculate_level_from_raw_value") /\ last.src = "write") =>
          props[LevelPath] = PyFloat(ExpectedLevel)
    /\ (Ran("_calculate_remaining_from_level") /\ last.src = "write") =>
          props[RemainingPath] = PyFloat(ExpectedRemaining)

\* Raw 120 of 240 gave level 50; the full calibration was then written to 50
\* and the cascade raised the level to 100 and the remaining volume to 0.2.
C15_Witness ==
  /\ RawMode /\ Ran("_calculate_remaining_from_level") /\ last.src = "write"
  /\ idle = <<>>
  /\ props[RawValuePath].n = 120000
  /\ props[RawValueFullPath].n = 50000
  /\ props[LevelPath] = PyFloat(100000)
  /\ props[RemainingPath] = PyFloat(200)


\* ---------------------------------------------------------------------------
\* The dispatcher and the connection
\* ---------------------------------------------------------------------------

\* The services whose subscription set holds the topic of the last message.
Subscribers ==
  {i \in DOMAIN active_services :
     last.topic \in active_services[i].dev.mqtt_subscriptions}

\* C16: every inbound message is offered to every service of the registry; a
\* service whose subscription set lacks the topic schedules nothing, and
\* every service whose set holds it processes the message.
C16_Fanout ==
  (phase = "running" /\ last.op = "msg") =>
    /\ last.delivered = DOMAIN active_services
    /\ last.processed = Subscribers
    /\ \A i \in DOMAIN last.sched : last.sched[i].service \in Subscribers

\* C17: no failure raised while a message is handled keeps it from the
\* remaining services: every message reaches the handler of every service.
C17_FailureIsolated ==
  (phase = "running" /\ last.op = "msg") =>
    ~last.raised /\ last.delivered = DOMAIN active_services

\* C18: every successful connect subscribes to exactly the topics of the
\* global subscription set, a failed one to none; a disconnect leaves no
\* subscription, so while connected the session holds exactly that set.
C18_Resubscribe ==
  phase = "running" =>
    /\ (last.op = "connect" /\ last.rc = 0) =>
         connected /\ last.subscribed = all_topics_to_subscribe
    /\ (last.op = "connect" /\ last.rc # 0) => ~connected /\ last.subscribed = {}
    /\ last.op = "disconnect" => subscriptions = {}
    /\ connected => subscriptions = all_topics_to_subscribe

\* The second connection, after a disconnect, has subscribed again.
C18_Witness ==
  /\ last.op = "connect" /\ last.rc = 0
  /\ connects = 2
  /\ last.subscribed # {}
  /\ subscriptions = all_topics_to_subscribe

\* The union of the subscription sets of the services of the registry.
RegistryTopics ==
  UNION {active_services[i].dev.mqtt_subscriptions : i \in DOMAIN active_services}

\* C19: the connection is opened only when every section has been processed;
\* from then on the global subscription set is the union of the services'
\* subscription sets, and the first handshake subscribes to exactly it.
C19_ConnectAfterSetup ==
  /\ phase # "setup" => sections = <<>> /\ all_topics_to_subscribe = RegistryTopics
  /\ (connected \/ connects > 0 \/ subscriptions # {}) => phase = "running"
  /\ (last.op = "connect" /\ last.rc = 0) => last.subscribed = RegistryTopics

\* The first handshake of a registry of two services that share a topic.
C19_Witness ==
  /\ last.op = "connect" /\ last.rc = 0 /\ connects = 1
  /\ Len(active_services) = 2
  /\ active_services[1].dev.mqtt_subscriptions \cap active_services[2].dev.mqtt_subscriptions
       # {}
  /\ active_services[1].dev.mqtt_subscriptions # active_services[2].dev.mqtt_subscriptions
  /\ last.subscribed = RegistryTopics


\* ---------------------------------------------------------------------------
\* The topic fields of a descriptor
\* ---------------------------------------------------------------------------

\* The topic fields of the device's descriptor: <<property path, topic>>.
TopicFields ==
  CASE dev.kind = "switch" ->
         {<<StatePath(k), dev.outputs[k].MqttStateTopic>> : k \in DOMAIN dev.outputs}
    [] dev.kind = "digitalinput" -> {<<InputStatePath, dev.mqtt_state_topic>>}
    [] dev.kind = "tank" ->
         {<<RawValuePath, dev.RawValueStateTopic>>, <<LevelPath, dev.LevelStateTopic>>,
          <<TemperaturePath, dev.TemperatureStateTopic>>}
    [] OTHER -> {dev.device_config[i] : i \in DOMAIN dev.device_config}

\* The device's topic-to-property map, as pairs <<property path, topic>>.
TopicMap ==
  CASE dev.kind = "switch" ->
         {<<StatePath(k), dev.dbus_path_to_state_topic_map[k]>> :
            k \in DOMAIN dev.dbus_path_to_state_topic_map}
    [] dev.kind = "digitalinput" -> {<<InputStatePath, t>> : t \in dev.mqtt_subscriptions}
    [] OTHER -> {dev.dbus_path_to_state_topic_map[i] :
                   i \in DOMAIN dev.dbus_path_to_state_topic_map}

\* The field is present, not empty and not the placeholder.
Configured(t) == t.name # "" /\ ~t.ph

\* The configured fields the constructors leave out all the same: the state
\* topic of an output whose command topic is not configured, and the level
\* topic of a tank whose raw topic is configured.
LeftOut(field) ==
  \/ /\ dev.kind = "switch"
     /\ \E k \in DOMAIN dev.outputs :
          field[1] = StatePath(k) /\ ~Configured(dev.outputs[k].MqttCommandTopic)
  \/ /\ dev.kind = "tank"
     /\ field[1] = LevelPath
     /\ Configured(dev.RawValueStateTopic)

\* A callback queued by a message has run.
MessageApplied == last.op = "idle" /\ last.src = "msg"

\* C20 as stated: a topic field is in the map and the subscription set
\* exactly when it is configured, and no message changes the channel of a
\* field that is not in the map.
C20_Original ==
  dev.kind # "main" =>
    /\ \A field \in TopicFields : field \in TopicMap <=> Configured(field[2])
    /\ dev.mqtt_subscriptions = {field[2] : field \in TopicMap}
    /\ MessageApplied => \A field \in TopicFields \ TopicMap : field[1] \notin last.set

\* C20: every entry of the map is a configured field, the subscription set
\* holds the topics of the map, and a configured field is in the map unless
\* it is the state topic of an output without a command topic or the level
\* topic of a tank with a raw topic; no message changes the channel of a
\* field that is not in the map, but for the level of a tank in raw mode,
\* which follows the raw value.
C20_TopicMap ==
  dev.kind # "main" =>
    /\ TopicMap \subseteq TopicFields
    /\ \A field \in TopicMap : Configured(field[2])
    /\ \A field \in TopicFields :
         field \in TopicMap <=> (Configured(field[2]) /\ ~LeftOut(field))
    /\ dev.mqtt_subscriptions = {field[2] : field \in TopicMap}
    /\ last.op = "msg" => last.changed = {}
    /\ (last.op = "msg" /\ last.topic \notin dev.mqtt_subscriptions) => last.sched = <<>>
    /\ MessageApplied =>
         \A field \in TopicFields \ TopicMap :
           \/ field[1] \notin last.set
           \/ dev.kind = "tank" /\ ~dev.is_level_direct /\ field[1] = LevelPath

\* A message on the configured state topic of an output that has no command
\* topic: the topic is not subscribed and the message is ignored.
C20_Witness ==
  /\ dev.kind = "switch"
  /\ Configured(dev.outputs[1].MqttStateTopic)
  /\ ~Configured(dev.outputs[1].MqttCommandTopic)
  /\ last.op = "msg" /\ last.topic = dev.outputs[1].MqttStateTopic
  /\ last.topic \notin dev.mqtt_subscriptions
  /\ last.sched = <<>>

\* ---------------------------------------------------------------------------
\* The decode fallback of the PV charger
\* ---------------------------------------------------------------------------

\* The channel of the last message, and its trimmed text.
LastChannel == path_of_topic(dev.dbus_path_to_state_topic_map, last.topic)
LastText == strip(last.payload.text)

\* The text is a number for int() or float().
NumericText(text) == int_of_text(text).ok \/ float_of_text(text).ok

\* The entry of the channel's state table for the text, letter case aside.
StateTable(channel, text) ==
  IF channel = ChargerStatePath THEN charger_state_map(lower(text))
  ELSE load_state_map(lower(text))

\* C21 (as stated): on the charger-state and load-state channels of a PV
\* charger a payload that is neither an object with a `value` field nor
\* numeric text decodes through the state table, letter case aside, and a
\* text absent from the table gives no value and no mutation; on every
\* other channel a payload that is neither an object with a numeric `value`
\* field nor a plain number gives no value and no mutation.
C21_StateTable ==
  (dev.kind = "pvcharger" /\ SubscribedMessage) =>
    IF LastChannel \in {ChargerStatePath, LoadStatePath}
    THEN (~HasValueField /\ ~NumericText(LastText)) =>
           /\ last.decoded = StateTable(LastChannel, LastText)
           /\ last.decoded = PyNone => (last.sched = <<>> /\ last.changed = {})
    ELSE (~(HasValueField /\ IsNumber(ValueField)) /\ ~NumericText(LastText)) =>
           /\ last.decoded = PyNone
           /\ last.sched = <<>>
           /\ last.changed = {}

\* ---------------------------------------------------------------------------
\* A persistence write that fails
\* ---------------------------------------------------------------------------

\* The callbacks that recompute derived state after the last write: the
\* display state after a write of the inversion flag of a digital input, the
\* level and the remaining volume after a calibration write of a tank in raw
\* mode, the remaining volume after a capacity write of a tank.
Recomputations ==
  CASE dev.kind = "digitalinput" /\ last.path = InvertTranslationPath ->
         <<"update_dbus_state">>
    [] RawMode /\ last.path \in {RawValueEmptyPath, RawValueFullPath} ->
         <<"_calculate_level_from_raw_value", "_calculate_remaining_from_level">>
    [] dev.kind = "tank" /\ last.path = CapacityPath ->
         <<"_calculate_remaining_from_level">>
    [] OTHER -> <<>>

\* C22: when the persistence write of an external property write fails, the
\* handler still answers True, the property holds the written value, and the
\* recomputations of derived state that the write triggers are queued.
C22_SaveFailureAbsorbed ==
  (last.op = "write" /\ last.failed) =>
    /\ last.ret
    /\ props[last.path] = last.value
    /\ [i \in DOMAIN last.sched |-> last.sched[i].f] = Recomputations
    /\ Len(idle) >= Len(last.sched)
    /\ SubSeq(idle, Len(idle) - Len(last.sched) + 1, Len(idle)) = last.sched

\* A failing write of the inversion flag of a digital input whose raw state is
\* 1: the flag is stored and the display state's recomputation is queued.
C22_Witness ==
  /\ dev.kind = "digitalinput"
  /\ last.op = "write"
  /\ last.failed
  /\ last.path = InvertTranslationPath
  /\ last.ret
  /\ props[InvertTranslationPath] = last.value
  /\ Len(last.sched) = 1
  /\ last.sched[1].f = "update_dbus_state"

\* ---------------------------------------------------------------------------
\* Connection failures
\* ---------------------------------------------------------------------------

\* The script has exited before the main loop: no handshake was answered, no
\* subscription made, no callback queued or run.
ExitedAtStartup ==
  /\ phase = "exited"
  /\ last.op = "main_connect"
  /\ connects = 0
  /\ ~connected
  /\ subscriptions = {}
  /\ idle = <<>>

\* A connection loss leaves the process running, and the next successful
\* connect subscribes again to every topic of the subscription set.
LossIsTransient ==
  /\ last.op = "disconnect" => phase = "running" /\ ~connected
  /\ (last.op = "connect" /\ last.rc = 0 /\ connects > 1) =>
       /\ phase = "running"
       /\ last.subscribed = all_topics_to_subscribe
       /\ subscriptions = all_topics_to_subscribe

\* C23 (as stated): when the initial connection does not succeed, whether
\* connect raises or the broker refuses the session, the process exits
\* without entering the main loop; a later loss never ends the process and
\* the next successful connect subscribes again.
C23_Original ==
  /\ (last.op = "main_connect" /\ last.caught) => ExitedAtStartup
  /\ (last.op = "connect" /\ connects = 1 /\ last.rc # 0) => phase = "exited"
  /\ LossIsTransient

\* C23 (amended): when the initial connect call raises, the process exits
\* without entering the main loop; a session the broker refuses is not
\* fatal: the process keeps running, unconnected and without subscription; a
\* later loss never ends the process and the next successful connect
\* subscribes again; nothing happens once the script has exited.
C23_ConnectFailure ==
  /\ (last.op = "main_connect" /\ last.caught) => ExitedAtStartup
  /\ phase = "exited" => ExitedAtStartup
  /\ (last.op = "connect" /\ last.rc # 0) =>
       phase = "running" /\ ~connected /\ last.subscribed = {}
  /\ LossIsTransient

\* connect has raised with two services in the registry: the script has exited.
C23_Witness ==
  /\ last.op = "main_connect"
  /\ last.caught
  /\ Len(active_services) = 2
  /\ phase = "exited"

\* ---------------------------------------------------------------------------
\* The configuration script
\* ---------------------------------------------------------------------------

\* C24 (as stated): after any sequence of add, edit and remove operations of
\* the configuration script, no two device sections carry the same device
\* instance.
C24_UniqueInstances ==
  \A e1 \in config : \A e2 \in config :
    e1.deviceinstance = e2.deviceinstance => e1.section = e2.section


\* C25 (as stated): in the registry built at startup no two Devices hold the
\* same device index.
C25_Original ==
  \A i \in DOMAIN active_services : \A j \in DOMAIN active_services :
    i # j => active_services[i].dev.DeviceIndex # active_services[j].dev.DeviceIndex

\* C25 (amended): every Device of the registry holds the first number of its
\* section name as device index.  Two Devices hold the same device index
\* exactly when their sections carry the same number: the Devices of one
\* family other than the inputs hold different indexes, while a relay module,
\* its inputs and the sensors of the other families with that number share it.
C25_SectionNumber ==
  dev.kind = "config" =>
    \A i \in DOMAIN active_services : \A j \in DOMAIN active_services :
      LET a == active_services[i].dev
          b == active_services[j].dev
      IN /\ a.DeviceIndex = b.DeviceIndex
              <=> a.config_section_name.dev = b.config_section_name.dev
         /\ (i # j /\ a.kind = b.kind /\ a.kind # "digitalinput")
              => a.DeviceIndex # b.DeviceIndex

\* A registry with two sensors of one family, which hold different indexes,
\* and a Device of another family that shares the index of one of them.
C25_Witness ==
  /\ dev.kind = "config"
  /\ \E i \in DOMAIN active_services : \E j \in DOMAIN active_services :
       /\ i # j
       /\ active_services[i].dev.kind = active_services[j].dev.kind
       /\ active_services[i].dev.DeviceIndex # active_services[j].dev.DeviceIndex
  /\ \E i \in DOMAIN active_services : \E j \in DOMAIN active_services :
       /\ active_services[i].dev.kind # active_services[j].dev.kind
       /\ active_services[i].dev.DeviceIndex = active_services[j].dev.DeviceIndex


\* ---------------------------------------------------------------------------
\* Discovery of relay modules
\* ---------------------------------------------------------------------------

\* The topic has a Dingtian shape: a segment with the family marker, followed
\* by a relay serial segment, with at least two segments after them.
DingtianShape(topic) ==
  \E p \in 1..(Len(topic) - 3) : dingtian_segment(topic[p]) /\ relay_segment(topic[p + 1])

\* The topic ends in out/i<digits>.
EndsInInput(topic) ==
  /\ Len(topic) >= 2
  /\ topic[Len(topic) - 1] = <<"out">>
  /\ Len(topic[Len(topic)]) = 2
  /\ topic[Len(topic)][1] = "i"
  /\ topic[Len(topic)][2] \in DigitPieces

\* The patterns of parse_mqtt_device_topic that match a topic.
RulesThatFire(topic) ==
  {rule \in {"dingtian_input", "dingtian", "shelly"} :
     CASE rule = "dingtian_input" -> dingtian_input_match(topic) # {}
       [] rule = "dingtian" -> dingtian_match(topic) # {}
       [] rule = "shelly" -> shelly_match(topic) # {}}

\* C26: a topic of a Dingtian shape that ends in out/i<digits> is classified
\* as family dingtian, component kind 'in' (a digital input, never 'out') with
\* the digits as component id; the input pattern is the one that answers
\* whenever it matches, and at most one pattern matches a topic.
C26_DingtianInput ==
  last.op = "on_message" =>
    LET topic == last.topic
        r == last.decoded.items
    IN /\ (DingtianShape(topic) /\ EndsInInput(topic)) =>
            /\ r[1] = PyStr("dingtian")
            /\ r[3] = PyStr("in")
            /\ r[3] # PyStr("out")
            /\ r[4] = PyStr(topic[Len(topic)][2])
       /\ dingtian_input_match(topic) # {} => r[3] = PyStr("in")
       /\ Cardinality(RulesThatFire(topic)) <= 1

\* The topic home/x-dingtian/relaya1/x/out/i7 has been classified as input 7
\* of the module relaya1.
C26_Witness ==
  /\ last.op = "on_message"
  /\ last.topic = << <<"home">>, <<"x", "-", "dingtian">>, <<"relay", "a1">>, <<"x">>,
                     <<"out">>, <<"i", "7">> >>
  /\ last.decoded.items[2] = PyText(<<"relay", "a1">>)
  /\ last.decoded.items[3] = PyStr("in")
  /\ last.decoded.items[4] = PyStr("7")

\* The topic has the Shelly shape in any letter case: a segment that starts
\* with the family marker and goes on, and status/switch:<n> at the end.
ShellyShape(topic) ==
  /\ \E p \in 1..(Len(topic) - 2) :
       /\ Len(topic[p]) >= 2
       /\ topic[p][1] \in {"shelly", "Shelly", "SHELLY"}
       /\ \A i \in 2..Len(topic[p]) : IsWordDash(topic[p][i])
  /\ Len(topic) >= 2
  /\ topic[Len(topic) - 1] \in {<<"status">>, <<"Status">>, <<"STATUS">>}
  /\ Len(topic[Len(topic)]) = 3
  /\ topic[Len(topic)][1] \in {"switch", "Switch", "SWITCH"}
  /\ topic[Len(topic)][2] = ":"
  /\ topic[Len(topic)][3] \in DigitPieces

\* C27: a topic of the Shelly shape .../status/switch:<n> is classified as
\* family shelly, component kind relay, component id n, whatever the letter
\* case of the family marker and of status/switch; a topic no pattern matches
\* gives five None, and on_message leaves the discovery map as it is.
C27_Shelly ==
  [][last'.op = "on_message" =>
       LET topic == last'.topic
           r == last'.decoded.items
       IN /\ ShellyShape(topic) =>
               /\ r[1] = PyStr("shelly")
               /\ r[3] = PyStr("relay")
               /\ r[4] = PyStr(topic[Len(topic)][3])
          /\ RulesThatFire(topic) = {} =>
               /\ \A i \in 1..5 : r[i] = PyNone
               /\ discovered_modules_and_topics' = discovered_modules_and_topics]_vars

\* The module SHELLY-a1 has been discovered as a shelly from a topic in upper
\* case, and the last topic, shelly/status/switch:0, has matched no pattern
\* and left the map with that one module.
C27_Witness ==
  /\ last.op = "on_message"
  /\ last.topic = << <<"shelly">>, <<"status">>, <<"switch", ":", "0">> >>
  /\ last.decoded.items[2] = PyNone
  /\ discovered_modules_and_topics =
       {[device_type |-> PyStr("shelly"), module_serial |-> PyText(<<"SHELLY", "-", "a1">>),
         topics |-> {<< <<"home">>, <<"SHELLY", "-", "a1">>, <<"x">>, <<"STATUS">>,
                        <<"SWITCH", ":", "12">> >>},
         base_topic_path |-> PyText(<< <<"SHELLY", "-", "a1">> >>)]}


\* ---------------------------------------------------------------------------
\* Messages on the network thread and callbacks on the main loop
\* ---------------------------------------------------------------------------

\* C28 (as stated): once every queued callback has run, the state of each
\* output of a relay module equals the value decoded from the most recent
\* message of its state topic, and the raw input state of a digital input
\* equals the most recently decoded boolean, whatever the interleaving of
\* messages and callbacks.
C28_LatestValueWins ==
  idle = <<>> =>
    /\ dev.kind = "switch" =>
         \A topic \in dev.mqtt_subscriptions :
           (prev[topic] # Undecoded /\ SwitchPathOf(dev, topic) # NoPath) =>
             PyEq(props[SwitchPathOf(dev, topic)], prev[topic])
    /\ (dev.kind = "digitalinput" /\ prev[dev.mqtt_state_topic] # Undecoded) =>
         PyEq(props[InputStatePath], prev[dev.mqtt_state_topic])


\* C29 (as stated): a message handler, which runs on the network thread,
\* assigns no property and computes no derived state: it decodes the payload
\* and queues callbacks that carry the decoded value; properties change in
\* the callbacks of the main loop and in the commit of a D-Bus write only.
C29_HandlersOnlyEnqueue ==
  /\ last.op = "msg" =>
       /\ last.set = {}
       /\ last.changed = {}
       /\ \A i \in DOMAIN last.sched : last.sched[i].v = last.decoded
  /\ last.changed # {} => last.op \in {"idle", "write"}


\* C30 (as stated): the callback that applies an inbound value on the main
\* loop compares the value with the property first and assigns nothing when
\* they are equal, in every class of device.
C30_RecheckBeforeWrite ==
  (last.op = "idle" /\ last.src = "msg" /\ PyEq(last.was, last.value)) => last.set = {}


\* ---------------------------------------------------------------------------
\* Types of the properties, the registry at runtime, the queue
\* ---------------------------------------------------------------------------

\* The paths of the battery and of the PV charger that are registered with a
\* number.
NumericPaths ==
  CASE dev.kind = "battery" -> DOMAIN props \ {CustomNamePath}
    [] dev.kind = "pvcharger" ->
         {p \in DOMAIN props : p # CustomNamePath /\ p.g # "Link" /\ p # LoadStatePath}
    [] OTHER -> {}

\* C31 (as stated): after any sequence of inbound messages, every numeric
\* property of a battery or a PV charger holds a number.
C31_NumericStaysNumeric ==
  \A p \in NumericPaths : props[p].t \in {"int", "float"}


\* The devices of the registry, without their property stores.
RegistryDevices == [n \in DOMAIN active_services |-> active_services[n].dev]

\* C32: once main() has entered the main loop, no message, callback, write,
\* disconnect or reconnect adds a device to the registry or removes one, and
\* none changes a device's descriptor (its subscription set and its map from
\* topics to paths) or the global subscription set.
C32_RegistryFixed ==
  [][phase = "running" =>
       /\ RegistryDevices' = RegistryDevices
       /\ all_topics_to_subscribe' = all_topics_to_subscribe]_vars

\* Two services are running, a message has been dispatched, a write was
\* committed, the connection was lost and made again, and a callback has
\* changed a property of the second service.
C32_Witness ==
  /\ phase = "running"
  /\ Len(active_services) = 2
  /\ connects = 2
  /\ left = 0
  /\ active_services[1].props[CustomNamePath] = PyStr("Cabin")
  /\ last.op = "idle"
  /\ last.service = 2
  /\ last.changed # {}


\* C33 (as stated): with the type of a digital input held fixed, once the
\* callbacks queued by state messages and inversion writes have all run, the
\* derived state is the code of the type's table for the raw input state
\* XOR the inversion flag, as they are then.
C33_DerivedStateSettles ==
  (dev.kind = "digitalinput" /\ idle = <<>> /\ last.op = "idle") =>
    PyEq(props[InputDisplayPath],
         get_dbus_state_for_type(props[InputTypePath],
           apply_inversion(props[InputStatePath], props[InvertTranslationPath])))


\* C34: neither a message handler nor the callback that applies a decoded
\* state publishes a command: a state message of a relay output is never
\* echoed as a command.
C34_NoEcho ==
  last.op \in {"msg", "idle"} => last.pub = <<>>

\* The main loop has applied a state message to an output of a connected
\* relay module whose command topic is mapped, and nothing was published.
C34_Witness ==
  /\ dev.kind = "switch"
  /\ connected
  /\ last.op = "idle"
  /\ last.src = "msg"
  /\ last.changed = {last.path}
  /\ last.path.o \in DOMAIN dev.dbus_path_to_command_topic_map
  /\ publish_mqtt_command(dev, last.path, last.value, connected) # <<>>
  /\ last.pub = <<>>


\* A write of 0 or 1 to the state of an output that cannot be published:
\* the client is disconnected, or the output has no command topic.
UnpublishableWrite ==
  /\ dev.kind = "switch"
  /\ last'.op = "write"
  /\ last'.path.o > 0 /\ last'.path.g = "" /\ last'.path.k = "State"
  /\ (PyEq(last'.value, PyInt(0)) \/ PyEq(last'.value, PyInt(1)))
  /\ (~connected \/ last'.path.o \notin DOMAIN dev.dbus_path_to_command_topic_map)

\* C35: a write of 0 or 1 to the state of an output while the client is
\* disconnected, or for an output without a command topic, is accepted and
\* sets the state, publishes nothing and queues nothing; and no step other
\* than a write publishes, a reconnect included.
C35_NoDeferredCommand ==
  [][/\ UnpublishableWrite =>
          /\ last'.ret
          /\ last'.pub = <<>>
          /\ idle' = idle
          /\ PyEq(props'[last'.path], last'.value)
     /\ last'.op # "write" => last'.pub = <<>>]_vars

\* The state of output 1 was set to 1 by a write while the client was
\* disconnected, and the client has connected since: nothing was published.
C35_Witness ==
  /\ dev.kind = "switch"
  /\ 1 \in DOMAIN dev.dbus_path_to_command_topic_map
  /\ last.op = "connection"
  /\ connected
  /\ left = MaxEvents - 2
  /\ idle = <<>>
  /\ \A t \in DOMAIN prev : prev[t] = Undecoded
  /\ props[StatePath(1)] = PyInt(1)
  /\ last.pub = <<>>


\* C36: a tank with no callback pending has a remaining volume computed from
\* its level and capacity and, in raw mode, a level computed from its raw
\* value and the two calibration values.
C36_TankSettled ==
  (dev.kind = "tank" /\ idle = <<>>) =>
    /\ props[RemainingPath] = calculate_remaining_from_level(props)[RemainingPath]
    /\ RawMode => props[LevelPath] = calculate_level_from_raw_value(props)[LevelPath]

\* The queue has drained after a raw value from the network was applied to a
\* tank whose calibration was written: the level lies strictly inside its range.
C36_Witness ==
  /\ RawMode
  /\ idle = <<>>
  /\ Ran("_update_raw_value_and_recalculate")
  /\ props[RawValueFullPath] = PyFloat(50000)
  /\ props[RawValuePath].n > 0
  /\ props[LevelPath].n > 0 /\ props[LevelPath].n < 100000
  /\ props[RemainingPath].n > 0


\* C37: an external write of the type of a digital input is accepted and sets
\* the type, issues one persistence write of the type's name, leaves the raw
\* input state and the derived state as they were and queues nothing.
C37_TypeWriteFrame ==
  [][(dev.kind = "digitalinput" /\ last'.op = "write" /\ last'.path = InputTypePath) =>
       /\ last'.ret
       /\ props'[InputTypePath] = last'.value
       /\ last'.save = save_config_change(dev.config_section_name, "Type",
                         PyStr(digital_input_type_name(last'.value)))
       /\ props'[InputStatePath] = props[InputStatePath]
       /\ props'[InputDisplayPath] = props[InputDisplayPath]
       /\ last'.sched = <<>>
       /\ idle' = idle]_vars

\* The type was written from door alarm to bilge pump while the input was
\* active: the derived state is still the door alarm's code.
C37_Witness ==
  /\ dev.kind = "digitalinput"
  /\ last.op = "write"
  /\ last.path = InputTypePath
  /\ last.was = PyInt(2)
  /\ last.value = PyInt(3)
  /\ props[InputTypePath] = PyInt(3)
  /\ props[InputStatePath] = PyInt(1)
  /\ props[InputDisplayPath] = PyInt(7)
  /\ last.save[1].value = <<W("bilge pump")>>
  /\ idle = <<>>


\* C38: a write of a value other than 0 and 1 to the state of an output is
\* not accepted: nothing is published, no persistence write is issued and
\* the state stays as it was.
C38_RejectedState ==
  (/\ dev.kind = "switch"
   /\ last.op = "write"
   /\ last.path.o > 0 /\ last.path.g = "" /\ last.path.k = "State"
   /\ ~PyEq(last.value, PyInt(0))
   /\ ~PyEq(last.value, PyInt(1))) =>
    /\ ~last.ret
    /\ last.pub = <<>>
    /\ last.save = <<>>
    /\ last.set = {}
    /\ props[last.path] = last.was

\* 2 was written to the state of a mapped output of a connected module that
\* was ON: the output is still ON.
C38_Witness ==
  /\ dev.kind = "switch"
  /\ connected
  /\ last.op = "write"
  /\ last.path = StatePath(1)
  /\ 1 \in DOMAIN dev.dbus_path_to_command_topic_map
  /\ last.value = PyInt(2)
  /\ ~last.ret
  /\ last.was = PyInt(1)
  /\ props[StatePath(1)] = PyInt(1)


\* C39: the queue changes only by a handler appending callbacks to it or by
\* the main loop removing the callback it has just run; a step of the main
\* loop removes exactly the oldest callback; and once no message or write
\* arrives any more the queue becomes empty.
C39_QueueDrains ==
  /\ [][/\ idle' # idle =>
             \/ last'.op = "idle" /\ idle' = Tail(idle)
             \/ /\ last'.op \in {"msg", "write"}
                /\ Len(idle') > Len(idle)
                /\ SubSeq(idle', 1, Len(idle)) = idle
        /\ last'.op = "idle" => idle # <<>> /\ idle' = Tail(idle)]_vars
  /\ (left = 0) ~> (idle = <<>>)

\* Every event has arrived and the queue has drained: the last callback run
\* was the recomputation queued by a write to the tank.
C39_Witness ==
  /\ dev.kind = "tank"
  /\ left = 0
  /\ idle = <<>>
  /\ Ran("_calculate_remaining_from_level")
  /\ last.src = "write"


\* The section the registry build is about to take.
NextSection == Head(sections)

\* C40: a turn of the registry build always moves on to the next section.
\* A section of a device family whose constructor returns adds its service
\* to the registry and its topics to the subscription set; a section whose
\* constructor raises, a section of no family and a section of an output,
\* switch_<m>_<n>, leave both as they are.
C40_BuildSkipsFailures ==
  [][(phase = "setup" /\ sections # <<>> /\ last'.op = "section") =>
       /\ sections' = Tail(sections)
       /\ phase' = "setup"
       /\ IF /\ device_type_map(NextSection.section.name) # "none"
             /\ ~(NextSection.section.name = "switch" /\ NextSection.section.out > 0)
             /\ ~NextSection.raises
          THEN /\ active_services' =
                    Append(active_services,
                           [dev |-> NextSection.dev, props |-> NextSection.props])
               /\ all_topics_to_subscribe' =
                    all_topics_to_subscribe \cup NextSection.dev.mqtt_subscriptions
          ELSE /\ active_services' = active_services
               /\ all_topics_to_subscribe' = all_topics_to_subscribe]_vars

\* The build has registered the tank and has then passed a battery whose
\* constructor raised: the registry holds the tank alone, the subscription
\* set holds no topic of the battery, and the build is at its end.
C40_Witness ==
  /\ phase = "setup"
  /\ sections = <<>>
  /\ last.op = "section"
  /\ last.caught
  /\ Len(active_services) = 1
  /\ active_services[1].dev.kind = "tank"
  /\ Topic(2, "Soc") \notin all_topics_to_subscribe
  /\ Topic(3, "RawValue") \in all_topics_to_subscribe
====
